---- MODULE Spec2Model ----
(***************************************************************************)
(* A model of the isofs image-construction pipeline (crates/isofs):        *)
(*   - LbaAllocator (lba.rs, writer.rs) with its 32-bit arithmetic,        *)
(*   - the filesystem tree (RootDirectory / DirectoryEntry / FileEntry)    *)
(*     with scaffold, insert_file and merge,                               *)
(*   - the allocation pass, the path table builder,                        *)
(*   - IsoWriter::finalize as a sequence of stages writing to a sink.      *)
(*                                                                         *)
(* Six specifications share the variables:                                 *)
(*   SpecAlloc  sequences of LbaAllocator::allocate calls,                 *)
(*   SpecSector sequences of SectorWriter::write_aligned calls,            *)
(*   SpecTree   Filesystem::insert_file / Filesystem::merge calls,         *)
(*   SpecPass   repeated allocation passes over one tree,                  *)
(*   Spec       IsoWriter: upsert_filesystem calls, then finalize,         *)
(*   SpecIo     finalize on a sink whose operations may fail.              *)
(***************************************************************************)
EXTENDS Integers, Sequences, FiniteSets, TLC

VARIABLES
  overflow_checks, \* TRUE: arithmetic overflow panics (debug build); FALSE: it wraps
  alloc,           \* LbaAllocator { sector_size, next_lba }, both u32
  alloc_log,       \* the allocate calls made so far: size, lba returned, next_lba before/after
  panicked,        \* a panic unwound the running operation
  root,            \* Filesystem.root
  last,            \* the last tree operation: its arguments, the tree before it, its result
  nops,            \* number of tree operations made
  iter_order,      \* iteration order of every HashMap of the frozen tree, by directory path
  options,         \* IsoWriterOptions { joliet, sector_size }
  pc,              \* position inside IsoWriter::finalize
  stages,          \* the stages of finalize executed so far, in order
  path_table,      \* PathTable { size, records }
  pt_lba,          \* path_table_type_l_lba / path_table_type_m_lba
  pvd,             \* the composed PrimaryVolumeDescriptor
  out,             \* every write made to the sink, in order, with its byte position
  passes,          \* each allocation pass made so far: the addresses before and after it
  sink,            \* the writer W the image is written to: what its `write` accepts
  sector_writer    \* a SectorWriter { storage, sector_ix, sector_size, bytes_offset }

vars == <<overflow_checks, alloc, alloc_log, panicked, root, last, nops, iter_order,
          options, pc, stages, path_table, pt_lba, pvd, out, passes, sink, sector_writer>>

None == [none |-> TRUE]
Some(v) == [some |-> v]
IsSome(o) == "some" \in DOMAIN o

(***************************************************************************)
(* u32 arithmetic.  A u32 is kept as two 16-bit limbs, so that sizes up to *)
(* 2^32 - 1 and the wrap at 2^32 are exact.                                *)
(***************************************************************************)
Limb == 2^16

U32(hi, lo) == [hi |-> hi, lo |-> lo]

\* a natural number below 2^31 as a u32
ToU32(n) == [hi |-> n \div Limb, lo |-> n % Limb]

\* a u32 below 2^31 as a natural number
ToNat(a) == a.hi * Limb + a.lo

U32Max == U32(Limb - 1, Limb - 1)

U32Zero == U32(0, 0)

U32Le(a, b) == a.hi < b.hi \/ (a.hi = b.hi /\ a.lo <= b.lo)

\* a + b in u32: the wrapped value, and whether the sum left the u32 range
U32Add(a, b) ==
  LET lo == a.lo + b.lo
      hi == a.hi + b.hi + (lo \div Limb)
  IN  [val |-> U32(hi % Limb, lo % Limb), overflow |-> hi >= Limb]

\* a - b in u32: the wrapped value, and whether it went below zero
U32Sub(a, b) ==
  LET borrow == IF a.lo < b.lo THEN 1 ELSE 0
      lo == a.lo + borrow * Limb - b.lo
      hi == a.hi - b.hi - borrow
  IN  [val |-> U32((hi + Limb) % Limb, lo), overflow |-> hi < 0]

\* a / d and a % d in u32 (long division by limbs), for a divisor d > 0 and a value
\* a with (a.hi % d) * 2^16 below 2^31
U32DivMod(a, d) ==
  LET qhi == a.hi \div d
      rhi == a.hi % d
      t   == rhi * Limb + a.lo
  IN  [quot |-> U32(qhi, t \div d), rem |-> t % d]

\* ceil(size / d), the exact mathematical value (it fits in a u32)
CeilDiv(size, d) ==
  LET qr == U32DivMod(size, d)
  IN  IF qr.rem = 0 THEN qr.quot ELSE U32Add(qr.quot, U32(0, 1)).val

(***************************************************************************)
(* LbaAllocator                                                            *)
(***************************************************************************)
\* `calls` is a history of the allocate calls made on the allocator (the size asked
\* for and the address returned); the program does not keep it
LbaAllocatorNew(sector_size, offset) ==
  [sector_size |-> sector_size, next_lba |-> offset, calls |-> << >>]

\* AllocSectors rounding down: `size / self.sector_size`
AllocSectorsRoundingDown(a, size, checks) ==
  [panic |-> FALSE, sectors |-> U32DivMod(size, ToNat(a.sector_size)).quot]

\* `(size + self.sector_size - 1) / self.sector_size`, evaluated left to right in u32.
\* panic: the build checks overflow and one of the operations overflowed.
AllocSectors(a, size, checks) ==
  LET t1 == U32Add(size, a.sector_size)
      t2 == U32Sub(t1.val, U32(0, 1))
  IN  [panic |-> checks /\ (t1.overflow \/ t2.overflow),
       sectors |-> U32DivMod(t2.val, ToNat(a.sector_size)).quot]

\* Allocate with next_lba left as it was
AllocateWithoutAdvance(a, size, checks) ==
  [panic |-> AllocSectors(a, size, checks).panic,
   lba   |-> a.next_lba,
   alloc |-> [a EXCEPT !.calls = Append(@, [size |-> size, lba |-> a.next_lba])]]

\* LbaAllocator::allocate: the address returned, the allocator afterwards
Allocate(a, size, checks) ==
  LET s   == AllocSectors(a, size, checks)
      nxt == U32Add(a.next_lba, s.sectors)
  IN  [panic |-> s.panic \/ (checks /\ nxt.overflow),
       lba   |-> a.next_lba,
       alloc |-> [a EXCEPT !.next_lba = nxt.val,
                           !.calls = Append(@, [size |-> size, lba |-> a.next_lba])]]

(***************************************************************************)
(* The filesystem tree.                                                    *)
(*   FileEntry      [data_lba, name, content]                              *)
(*   DirectoryEntry [data_lba, name, dirs, files]                          *)
(*   RootDirectory  [data_lba, dirs, files]                                *)
(* dirs and files are the HashMaps, as functions from the key to the entry.*)
(* A FileEntryContent is [tag, extent]: tag names the bytes, extent is the *)
(* u64 byte length as its two 32-bit halves [hi, lo].                      *)
(***************************************************************************)
EmptyMap == << >>

Content(tag, len) == [tag |-> tag, extent |-> [hi |-> 0, lo |-> len]]

\* FileEntryContent::extent
Extent(content) == content.extent

\* `as u32` of a u64: the low 32 bits
AsU32(e) == e.lo

FileEntry(name, content) == [data_lba |-> None, name |-> name, content |-> content]

DirectoryEntry(name, dirs, files) ==
  [data_lba |-> None, name |-> name, dirs |-> dirs, files |-> files]

\* RootDirectory::default()
RootDefault == [data_lba |-> None, dirs |-> EmptyMap, files |-> EmptyMap]

(***************************************************************************)
(* OnFileConflict.  A Handler carries a function of (existing, incoming);  *)
(* the model knows three: one returning the existing entry, one returning  *)
(* the incoming entry, one synthesizing an entry of its own.               *)
(***************************************************************************)
Overwrite == [kind |-> "Overwrite"]
Ignore == [kind |-> "Ignore"]
Handler(fn) == [kind |-> "Handler", fn |-> fn]

SynthEntry == FileEntry("SYNTH", Content("synth", 5))

HandlerApply(fn, existing, incoming) ==
  CASE fn = "existing" -> existing
    [] fn = "incoming" -> incoming
    [] fn = "synth"    -> SynthEntry

\* ResolveConflict with the handler given (incoming, existing)
ResolveConflictSwappedArgs(policy, existing, incoming) ==
  CASE policy.kind = "Overwrite" -> incoming
    [] policy.kind = "Ignore"    -> existing
    [] policy.kind = "Handler"   -> HandlerApply(policy.fn, incoming, existing)

\* the file stored under a colliding name once the policy has been applied
ResolveConflict(policy, existing, incoming) ==
  CASE policy.kind = "Overwrite" -> incoming
    [] policy.kind = "Ignore"    -> existing
    [] policy.kind = "Handler"   -> HandlerApply(policy.fn, existing, incoming)

\* f[x] for every x of S, concatenated.  The order of a HashMap's iteration is
\* unspecified and the calls of different names do not depend on each other;
\* the model takes the names in a fixed order.
RECURSIVE ConcatOver(_, _)
ConcatOver(S, f) ==
  IF S = {} THEN << >>
  ELSE LET x == CHOOSE y \in S : TRUE
       IN  f[x] \o ConcatOver(S \ {x}, f)

\* the handler calls one colliding name causes: `handler(existing.clone(), file)`
ConflictCalls(policy, at, existing, incoming) ==
  IF policy.kind = "Handler"
    THEN <<[at |-> at, existing |-> existing, incoming |-> incoming]>>
    ELSE << >>

\* the second loop of merge: `for (name, file) in other.files`
MergeFiles(self_files, other_files, policy) ==
  [n \in DOMAIN self_files \cup DOMAIN other_files |->
     IF n \notin DOMAIN other_files THEN self_files[n]
     ELSE IF n \notin DOMAIN self_files THEN other_files[n]
     ELSE ResolveConflict(policy, self_files[n], other_files[n])]

MergeFilesCalls(self_files, other_files, policy, at) ==
  ConcatOver(DOMAIN self_files \cap DOMAIN other_files,
             [n \in DOMAIN self_files \cap DOMAIN other_files |-> ConflictCalls(policy, at \o <<n>>, self_files[n], other_files[n])])

RECURSIVE MergeDir(_, _, _)

\* MergeDir with an occupied directory entry replaced by the incoming directory
MergeDirReplacing(self, other, policy) ==
  [self EXCEPT
     !.dirs = [n \in DOMAIN self.dirs \cup DOMAIN other.dirs |->
                 IF n \in DOMAIN other.dirs THEN other.dirs[n] ELSE self.dirs[n]],
     !.files = MergeFiles(self.files, other.files, policy)]

\* DirectoryEntry::merge.  The handler calls are kept apart (MergeDirCalls).
MergeDir(self, other, policy) ==
  [self EXCEPT
     !.dirs = [n \in DOMAIN self.dirs \cup DOMAIN other.dirs |->
                 IF n \notin DOMAIN other.dirs THEN self.dirs[n]
                 ELSE IF n \notin DOMAIN self.dirs THEN other.dirs[n]
                 ELSE MergeDir(self.dirs[n], other.dirs[n], policy)],
     !.files = MergeFiles(self.files, other.files, policy)]

\* every call of the handler made by DirectoryEntry::merge, with the path of the file
RECURSIVE MergeDirCalls(_, _, _, _)
MergeDirCalls(self, other, policy, at) ==
  ConcatOver(DOMAIN self.dirs \cap DOMAIN other.dirs,
             [n \in DOMAIN self.dirs \cap DOMAIN other.dirs |-> MergeDirCalls(self.dirs[n], other.dirs[n], policy, at \o <<n>>)])
  \o MergeFilesCalls(self.files, other.files, policy, at)

\* RootDirectory::merge
MergeRoot(self, other, policy) ==
  [self EXCEPT
     !.dirs = [n \in DOMAIN self.dirs \cup DOMAIN other.dirs |->
                 IF n \notin DOMAIN other.dirs THEN self.dirs[n]
                 ELSE IF n \notin DOMAIN self.dirs THEN other.dirs[n]
                 ELSE MergeDir(self.dirs[n], other.dirs[n], policy)],
     !.files = MergeFiles(self.files, other.files, policy)]

MergeRootCalls(self, other, policy) ==
  ConcatOver(DOMAIN self.dirs \cap DOMAIN other.dirs,
             [n \in DOMAIN self.dirs \cap DOMAIN other.dirs |-> MergeDirCalls(self.dirs[n], other.dirs[n], policy, <<n>>)])
  \o MergeFilesCalls(self.files, other.files, policy, << >>)

\* RootDirectory::from_directory
FromDirectory(dir, emplace) ==
  IF emplace
    THEN [data_lba |-> dir.data_lba, dirs |-> dir.dirs, files |-> dir.files]
    ELSE [data_lba |-> None, dirs |-> (dir.name :> dir), files |-> EmptyMap]

\* the loop of scaffold over the reversed components: the chain's head directory
RECURSIVE ScaffoldTail(_, _, _)
ScaffoldTail(components, dirs, files) ==
  IF Len(components) = 1
    THEN DirectoryEntry(components[1], dirs, files)
    ELSE LET tail == ScaffoldTail(Tail(components), dirs, files)
         IN  DirectoryEntry(components[1], (tail.name :> tail), EmptyMap)

\* RootDirectory::scaffold
Scaffold(components, dirs, files) ==
  IF components = << >>
    THEN RootDefault
    ELSE FromDirectory(ScaffoldTail(components, dirs, files), FALSE)

(***************************************************************************)
(* std::path::Path, as the sequence of its components() rendered by        *)
(* as_os_str(): "/" is the root component, "." and ".." the special ones.  *)
(***************************************************************************)
SpecialComponents == {"/", ".", ".."}

\* FileName taking the last component whatever it is
FileNameOfAnyComponent(path) ==
  IF path = << >> THEN None ELSE Some(path[Len(path)])

\* Path::file_name
FileName(path) ==
  IF path = << >> THEN None
  ELSE IF path[Len(path)] \in SpecialComponents THEN None
  ELSE Some(path[Len(path)])

\* Path::parent
Parent(path) ==
  IF path = << >> \/ path = <<"/">> THEN None
  ELSE Some(SubSeq(path, 1, Len(path) - 1))

\* RootDirectory::insert_file: the error or Ok, and the tree afterwards
InsertFile(self, path, content, policy) ==
  IF ~IsSome(FileName(path))
    THEN [err |-> "NotAFile", root |-> self, calls |-> << >>]
    ELSE LET file_name == FileName(path).some
             files == (file_name :> FileEntry(file_name, content))
             scaffold == IF IsSome(Parent(path))
                           THEN Scaffold(Parent(path).some, EmptyMap, files)
                           ELSE RootDefault
         IN  [err |-> "Ok",
              root |-> MergeRoot(self, scaffold, policy),
              calls |-> MergeRootCalls(self, scaffold, policy)]

(***************************************************************************)
(* Reading a tree.  A directory path is the sequence of keys from the root.*)
(***************************************************************************)
\* the directory reached from `dir` along `path`, or None
RECURSIVE DirAt(_, _)
DirAt(dir, path) ==
  IF path = << >> THEN Some(dir)
  ELSE IF path[1] \in DOMAIN dir.dirs THEN DirAt(dir.dirs[path[1]], Tail(path))
  ELSE None

\* the paths of all directories below and including `dir`, which lies at `at`
RECURSIVE DirPathsFrom(_, _)
DirPathsFrom(dir, at) ==
  {at} \cup UNION {DirPathsFrom(dir.dirs[n], at \o <<n>>) : n \in DOMAIN dir.dirs}

DirPaths(r) == DirPathsFrom(r, << >>)

\* the paths of all files of the tree: directory path, then the key in its file map
FilePaths(r) ==
  UNION {{p \o <<n>> : n \in DOMAIN DirAt(r, p).some.files} : p \in DirPaths(r)}

FileAtPath(r, fp) == DirAt(r, SubSeq(fp, 1, Len(fp) - 1)).some.files[fp[Len(fp)]]

(***************************************************************************)
(* Directory records and the derived data length of a directory.           *)
(***************************************************************************)
\* the encoded length of a `.` or `..` record (`2 * 34`)
DotEntryExtent == 34

\* DirectoryRecord::extent of the record codec: 33 header bytes and the identifier,
\* padded to an even length
DirectoryRecordExtent(record) ==
  LET n == 33 + Len(record.file_identifier) IN n + (n % 2)

\* the sum of f[x] over the keys x of S
RECURSIVE SumOver(_, _)
SumOver(S, f) ==
  IF S = {} THEN 0
  ELSE LET x == CHOOSE y \in S : TRUE
       IN  f[x] + SumOver(S \ {x}, f)

UnwrapOr(o, d) == IF IsSome(o) THEN o.some ELSE d

\* FileEntry::directory_record
FileDirectoryRecord(file) ==
  [extent_location |-> UnwrapOr(file.data_lba, U32Zero),
   data_length |-> AsU32(Extent(file.content)),
   file_flags |-> "file",
   file_identifier |-> file.name]

\* the data_length expression of directory_record / root_directory_record, given the
\* records of the immediate children
ChildrenExtent(file_records, dir_records) ==
  SumOver(DOMAIN file_records, [n \in DOMAIN file_records |-> DirectoryRecordExtent(file_records[n])])
  + SumOver(DOMAIN dir_records, [n \in DOMAIN dir_records |-> DirectoryRecordExtent(dir_records[n])])
  + (2 * DotEntryExtent)

RECURSIVE DirectoryRecord(_)

\* DirectoryRecord with the data length of the subdirectories counted in
DirectoryRecordCountingSubtree(dir) ==
  [extent_location |-> UnwrapOr(dir.data_lba, U32Zero),
   data_length |-> ChildrenExtent([n \in DOMAIN dir.files |-> FileDirectoryRecord(dir.files[n])],
                                  [n \in DOMAIN dir.dirs |-> DirectoryRecord(dir.dirs[n])])
                   + SumOver(DOMAIN dir.dirs,
                             [n \in DOMAIN dir.dirs |-> DirectoryRecord(dir.dirs[n]).data_length]),
   file_flags |-> "directory",
   file_identifier |-> dir.name]

\* DirectoryEntry::directory_record
DirectoryRecord(dir) ==
  [extent_location |-> UnwrapOr(dir.data_lba, U32Zero),
   data_length |-> ChildrenExtent([n \in DOMAIN dir.files |-> FileDirectoryRecord(dir.files[n])],
                                  [n \in DOMAIN dir.dirs |-> DirectoryRecord(dir.dirs[n])]),
   file_flags |-> "directory",
   file_identifier |-> dir.name]

\* RootDirectory::root_directory_record
RootDirectoryRecord(r) ==
  [extent_location |-> UnwrapOr(r.data_lba, U32Zero),
   data_length |-> ChildrenExtent([n \in DOMAIN r.files |-> FileDirectoryRecord(r.files[n])],
                                  [n \in DOMAIN r.dirs |-> DirectoryRecord(r.dirs[n])]),
   file_flags |-> "directory"]

\* the data length of the directory at `path` of the tree
DataLengthAt(r, path) ==
  IF path = << >> THEN RootDirectoryRecord(r).data_length
  ELSE DirectoryRecord(DirAt(r, path).some).data_length

(***************************************************************************)
(* Iteration order of the HashMaps.  std's HashMap iterates in an order    *)
(* that depends on the map's random hasher state; it is the same for every *)
(* iteration of one unmodified map.  An order of a tree gives, for every   *)
(* directory path, the sequence in which `dirs` and `files` are iterated.  *)
(***************************************************************************)
\* the sequences that enumerate S once each
Perms(S) ==
  {s \in [1..Cardinality(S) -> S] : \A i, j \in 1..Cardinality(S) : i # j => s[i] # s[j]}

RECURSIVE OrdersOver(_, _)
OrdersOver(P, r) ==
  IF P = {} THEN {<< >>}
  ELSE LET p == CHOOSE q \in P : TRUE
       IN  {(p :> [dirs |-> d, files |-> f]) @@ o :
              d \in Perms(DOMAIN DirAt(r, p).some.dirs),
              f \in Perms(DOMAIN DirAt(r, p).some.files),
              o \in OrdersOver(P \ {p}, r)}

\* every iteration order the maps of the tree r can have
OrdersOf(r) == OrdersOver(DirPaths(r), r)

(***************************************************************************)
(* The allocation pass (allocate_lbas).  Each step returns the node with   *)
(* its addresses set, the allocator afterwards, and whether it panicked.   *)
(***************************************************************************)
\* Allocated with the address returned but not stored in the node
AllocatedNotStored(node, r) ==
  [panic |-> r.panic, node |-> node, alloc |-> r.alloc]

\* the node with the address `r.lba` that the allocate call `r` returned
Allocated(node, r) ==
  [panic |-> r.panic, node |-> [node EXCEPT !.data_lba = Some(r.lba)], alloc |-> r.alloc]

\* FileEntry::allocate_lbas
AllocFile(file, a, checks) ==
  Allocated(file, Allocate(a, ToU32(FileDirectoryRecord(file).data_length), checks))

\* a loop over a map: the entry `name` has been done (r), then the others (rest)
LoopDone(name, r, rest) ==
  [panic |-> r.panic \/ rest.panic,
   map |-> [rest.map EXCEPT ![name] = r.node],
   alloc |-> rest.alloc]

RECURSIVE AllocFiles(_, _, _, _)

\* the rest of the loop over the files, from the allocator the first file left
AllocFilesAfter(files, names, r, checks) ==
  LoopDone(Head(names), r, AllocFiles(files, Tail(names), r.alloc, checks))

\* `for file in self.files.values_mut()`, the names in iteration order
AllocFiles(files, names, a, checks) ==
  IF names = << >> THEN [panic |-> FALSE, map |-> files, alloc |-> a]
  ELSE AllocFilesAfter(files, names, AllocFile(files[Head(names)], a, checks), checks)

RECURSIVE AllocDirs(_, _, _, _, _, _)

\* the directory once its own address (r), its subdirectories (ds) and its files
\* (fs) are done
DirAllocated(dir, r, ds, fs) ==
  [panic |-> r.panic \/ ds.panic \/ fs.panic,
   node |-> [dir EXCEPT !.data_lba = Some(r.lba), !.dirs = ds.map, !.files = fs.map],
   alloc |-> fs.alloc]

\* the second loop of allocate_lbas, from the allocator the first loop left
AllocDirThenFiles(dir, at, order, checks, r, ds) ==
  DirAllocated(dir, r, ds, AllocFiles(dir.files, order[at].files, ds.alloc, checks))

\* AllocDirThenDirs with the two loops exchanged: the files, then the subdirectories
AllocDirThenFilesFirst(dir, at, order, checks, r) ==
  LET fs == AllocFiles(dir.files, order[at].files, r.alloc, checks)
      ds == AllocDirs(dir.dirs, order[at].dirs, at, fs.alloc, order, checks)
  IN  [panic |-> r.panic \/ ds.panic \/ fs.panic,
       node |-> [dir EXCEPT !.data_lba = Some(r.lba), !.dirs = ds.map, !.files = fs.map],
       alloc |-> ds.alloc]

\* the first loop of allocate_lbas, from the allocator the directory's own call left
AllocDirThenDirs(dir, at, order, checks, r) ==
  AllocDirThenFiles(dir, at, order, checks, r,
                    AllocDirs(dir.dirs, order[at].dirs, at, r.alloc, order, checks))

\* AllocDir asking for the extent of the directory's own record
AllocDirByRecordExtent(dir, at, a, order, checks) ==
  AllocDirThenDirs(dir, at, order, checks,
                   Allocate(a, ToU32(DirectoryRecordExtent(DirectoryRecord(dir))), checks))

\* DirectoryEntry::allocate_lbas, for the directory at path `at`
AllocDir(dir, at, a, order, checks) ==
  AllocDirThenDirs(dir, at, order, checks,
                   Allocate(a, ToU32(DirectoryRecord(dir).data_length), checks))

\* the rest of the loop over the subdirectories, from the allocator the first one left
AllocDirsAfter(dirs, names, at, order, checks, r) ==
  LoopDone(Head(names), r, AllocDirs(dirs, Tail(names), at, r.alloc, order, checks))

\* `for dir in self.dirs.values_mut()`, the names in iteration order
AllocDirs(dirs, names, at, a, order, checks) ==
  IF names = << >> THEN [panic |-> FALSE, map |-> dirs, alloc |-> a]
  ELSE AllocDirsAfter(dirs, names, at, order, checks,
                      AllocDir(dirs[Head(names)], at \o <<Head(names)>>, a, order, checks))

\* RootDirectory::allocate_lbas
AllocRoot(r, a, order, checks) ==
  AllocDirThenDirs(r, << >>, order, checks,
                   Allocate(a, ToU32(RootDirectoryRecord(r).data_length), checks))

\* the address of every directory and of every file of the tree, by path
Addresses(r) ==
  [dirs |-> [p \in DirPaths(r) |-> DirAt(r, p).some.data_lba],
   files |-> [fp \in FilePaths(r) |-> FileAtPath(r, fp).data_lba]]

(***************************************************************************)
(* PathTable                                                               *)
(***************************************************************************)
\* Identifier::root_directory()
RootIdentifier == "\\0"

\* PathTableRecord::extent of the record codec: 8 header bytes and the identifier,
\* padded to an even length
PathTableRecordExtent(record) ==
  8 + record.directory_identifier_length + (record.directory_identifier_length % 2)

RECURSIVE Aggregate(_, _, _, _, _)

\* `dir.dirs.values().for_each(|subdir| aggregate(subdir, ix, records))`
RECURSIVE AggregateEach(_, _, _, _, _, _)
AggregateEach(dirs, names, at, ix, records, order) ==
  IF names = << >> THEN records
  ELSE AggregateEach(dirs, Tail(names), at, ix,
                     Aggregate(dirs[Head(names)], at \o <<Head(names)>>, ix, records, order),
                     order)

\* Aggregate with the parent index taken after the record has been pushed
AggregateIndexAfterPush(dir, at, parent_ix, records, order) ==
  IF ~IsSome(dir.data_lba) THEN records
  ELSE LET record == [directory_identifier_length |-> Len(dir.name) % 256,
                      extent_location |-> dir.data_lba.some,
                      parent_directory_number |-> parent_ix,
                      directory_identifier |-> dir.name]
           ix == (Len(records) + 1 + 1) % Limb
       IN  AggregateEach(dir.dirs, order[at].dirs, at, ix, Append(records, record), order)

\* Aggregate without the descent into the subdirectories
AggregateNotDescending(dir, at, parent_ix, records, order) ==
  IF ~IsSome(dir.data_lba) THEN records
  ELSE Append(records, [directory_identifier_length |-> Len(dir.name) % 256,
                        extent_location |-> dir.data_lba.some,
                        parent_directory_number |-> parent_ix,
                        directory_identifier |-> dir.name])

\* aggregate: the record of `dir`, then those of its subdirectories; a directory
\* without an address returns early (`dir.data_lba?`) and adds nothing
Aggregate(dir, at, parent_ix, records, order) ==
  IF ~IsSome(dir.data_lba) THEN records
  ELSE LET ix == (Len(records) + 1) % Limb
           record == [directory_identifier_length |-> Len(dir.name) % 256,
                      extent_location |-> dir.data_lba.some,
                      parent_directory_number |-> parent_ix,
                      directory_identifier |-> dir.name]
       IN  AggregateEach(dir.dirs, order[at].dirs, at, ix, Append(records, record), order)

RECURSIVE SumSeq(_, _)
SumSeq(s, f) == IF s = << >> THEN 0 ELSE f[Head(s)] + SumSeq(Tail(s), f)

\* PathTable::build_from_filesystem
BuildFromFilesystem(r, order) ==
  IF ~IsSome(r.data_lba) THEN None
  ELSE LET first == [directory_identifier_length |-> 1,
                     extent_location |-> r.data_lba.some,
                     parent_directory_number |-> 1,
                     directory_identifier |-> RootIdentifier]
           records == AggregateEach(r.dirs, order[<< >>].dirs, << >>, 1, <<first>>, order)
       IN  Some([size |-> SumSeq(records, [x \in {records[i] : i \in 1..Len(records)} |->
                                             PathTableRecordExtent(x)]),
                 records |-> records])


(***************************************************************************)
(* SectorWriter and the sink.  A write is logged as a record with its kind,*)
(* its byte position in the sink and the number of bytes.                  *)
(***************************************************************************)
Min(a, b) == IF a <= b THEN a ELSE b

\* A storage (`Storage: std::io::Write + std::io::Seek`) is described by what one call
\* of `write` accepts.  A growing storage (a file, a Cursor over a Vec) accepts the
\* whole buffer; a storage over a fixed buffer of `capacity` bytes (a Cursor over a
\* `&mut [u8]`) accepts the bytes that fit, none at or after its end, and returns Ok.
Growing == [bounded |-> FALSE, capacity |-> 0]

FixedBuffer(capacity) == [bounded |-> TRUE, capacity |-> capacity]

\* `self.storage.write(buf)` at byte `pos` for a buffer of n bytes: the number written
StorageWrite(storage, pos, n) ==
  IF ~storage.bounded THEN n
  ELSE IF pos >= storage.capacity THEN 0
  ELSE Min(n, storage.capacity - pos)

\* `write_all` of n bytes at pos: it calls `write` until every byte is taken and returns
\* Err(WriteZero) when a `write` takes none.  TRUE: the call succeeds.
StorageWriteAll(storage, pos, n) ==
  n = 0 \/ StorageWrite(storage, pos, n) = n

\* SectorWriter::new
SectorWriterNew(storage, sector_offset, sector_size) ==
  [storage |-> storage, sector_ix |-> sector_offset, sector_size |-> sector_size,
   bytes_offset |-> 0]

\* the cursor once `written` bytes went to sector ix at offset off
CursorAfter(sw, ix, off, n, written) ==
  [sw |-> [sw EXCEPT !.sector_ix = ix, !.bytes_offset = off + written],
   pos |-> ix * sw.sector_size + off,
   len |-> n,
   written |-> written]

\* WriteAligned staying in the current sector, at the cursor, whatever the length
WriteAlignedNoAdvance(sw, len) ==
  LET n == Min(len, sw.sector_size)
  IN  CursorAfter(sw, sw.sector_ix, sw.bytes_offset, n,
                  StorageWrite(sw.storage, sw.sector_ix * sw.sector_size + sw.bytes_offset, n))

\* SectorWriter::write_aligned for a buffer of `len` bytes: the cursor afterwards,
\* where the (truncated) buffer was written, its length and the number of bytes the
\* storage took (the value returned in Ok)
WriteAligned(sw, len) ==
  LET n    == Min(len, sw.sector_size)
      next == sw.bytes_offset + n > sw.sector_size
      ix   == IF next THEN sw.sector_ix + 1 ELSE sw.sector_ix
      off  == IF next THEN 0 ELSE sw.bytes_offset
  IN  CursorAfter(sw, ix, off, n, StorageWrite(sw.storage, ix * sw.sector_size + off, n))

\* the loop `for record in ...: resize(record.extent()); serialize; write_aligned`
RECURSIVE WriteRecords(_, _, _, _)
WriteRecords(sw, items, kind, owner) ==
  IF items = << >> THEN << >>
  ELSE LET w == WriteAligned(sw, Head(items).extent)
       IN  <<[kind |-> kind, owner |-> owner, pos |-> w.pos, len |-> w.len,
              written |-> w.written, record |-> Head(items).record]>>
           \o WriteRecords(w.sw, Tail(items), kind, owner)

RECURSIVE ConcatSeqs(_)
ConcatSeqs(ss) == IF ss = << >> THEN << >> ELSE Head(ss) \o ConcatSeqs(Tail(ss))

\* Identifier::current_directory() and Identifier::parent_directory(): one byte each
\* (0x00 and 0x01), written here as one-character strings
CurrentDirectoryIdentifier == "."
ParentDirectoryIdentifier == "^"

\* a directory record with its encoded length
WithExtent(record) == [record |-> record, extent |-> DirectoryRecordExtent(record)]

\* DotRecord with the data length left at zero
DotRecordNoLength(identifier, extent_location, data_length) ==
  [extent_location |-> extent_location, data_length |-> 0,
   file_flags |-> "directory", file_identifier |-> identifier]

\* the `.` / `..` record built by write_directory_entry and write_root_directory
DotRecord(identifier, extent_location, data_length) ==
  [extent_location |-> extent_location, data_length |-> data_length,
   file_flags |-> "directory", file_identifier |-> identifier]

\* write_file_entry: seek to the file's address, copy the whole content.  The number
\* of bytes copied is the u64 length of the content: len_hi * 2^32 + len.
WriteFileEntry(file, at, opts) ==
  IF ~IsSome(file.data_lba) THEN <<[kind |-> "unreachable", owner |-> at]>>
  ELSE <<[kind |-> "file_data", owner |-> at,
          pos |-> ToNat(file.data_lba.some) * opts.sector_size,
          len |-> Extent(file.content).lo,
          len_hi |-> Extent(file.content).hi,
          content |-> file.content.tag]>>

\* write_directory_entry, for the directory at path `at`
RECURSIVE WriteDirectoryEntry(_, _, _, _, _, _, _)
WriteDirectoryEntry(writer, dir, at, parent_dir_extent_location, parent_dir_data_length, order, opts) ==
  IF ~IsSome(dir.data_lba) THEN <<[kind |-> "unreachable", owner |-> at]>>
  ELSE
    LET lba == dir.data_lba.some
        dir_record == DirectoryRecord(dir)
        ds == order[at].dirs
        fs == order[at].files
        items ==
          <<WithExtent(DotRecord(CurrentDirectoryIdentifier, lba, dir_record.data_length)),
            WithExtent(DotRecord(ParentDirectoryIdentifier, parent_dir_extent_location,
                                 parent_dir_data_length))>>
          \o [i \in 1..Len(ds) |-> WithExtent(DirectoryRecord(dir.dirs[ds[i]]))]
          \o [i \in 1..Len(fs) |-> WithExtent(FileDirectoryRecord(dir.files[fs[i]]))]
    IN  WriteRecords(SectorWriterNew(writer, ToNat(lba), opts.sector_size), items,
                     "dir_record", at)
        \o ConcatSeqs([i \in 1..Len(ds) |->
             WriteDirectoryEntry(writer, dir.dirs[ds[i]], at \o <<ds[i]>>, lba,
                                 dir_record.data_length, order, opts)])
        \o ConcatSeqs([i \in 1..Len(fs) |-> WriteFileEntry(dir.files[fs[i]], at \o <<fs[i]>>, opts)])

\* write_root_directory
WriteRootDirectory(writer, r, order, opts) ==
  IF ~IsSome(r.data_lba) THEN <<[kind |-> "unreachable", owner |-> << >>]>>
  ELSE
    LET lba == r.data_lba.some
        root_record == RootDirectoryRecord(r)
        ds == order[<< >>].dirs
        fs == order[<< >>].files
        items ==
          <<WithExtent(DotRecord(CurrentDirectoryIdentifier, lba, root_record.data_length)),
            WithExtent(DotRecord(ParentDirectoryIdentifier, root_record.extent_location,
                                 root_record.data_length))>>
          \o [i \in 1..Len(ds) |-> WithExtent(DirectoryRecord(r.dirs[ds[i]]))]
          \o [i \in 1..Len(fs) |-> WithExtent(FileDirectoryRecord(r.files[fs[i]]))]
    IN  WriteRecords(SectorWriterNew(writer, ToNat(lba), opts.sector_size), items,
                     "dir_record", << >>)
        \o ConcatSeqs([i \in 1..Len(ds) |->
             WriteDirectoryEntry(writer, r.dirs[ds[i]], <<ds[i]>>, root_record.extent_location,
                                 root_record.data_length, order, opts)])
        \o ConcatSeqs([i \in 1..Len(fs) |-> WriteFileEntry(r.files[fs[i]], <<fs[i]>>, opts)])

(***************************************************************************)
(* IsoWriter                                                               *)
(***************************************************************************)
\* IsoWriter.boot_record: `new` sets it to None and nothing else assigns it
boot_record == None

\* `b as u32`
BoolAsInt(b) == IF b THEN 1 ELSE 0

\* the length of the descriptor buffer, `[0u8; 2048]`
DescriptorBytes == 2048

\* FinalizeAllocator without the sector of the terminator
FinalizeAllocatorNoTerminator(opts) ==
  LbaAllocatorNew(ToU32(opts.sector_size),
                  ToU32(16 + 1 + BoolAsInt(opts.joliet) + BoolAsInt(IsSome(boot_record))))

\* the allocator finalize starts from: the first sector after the system area (16
\* sectors), the primary descriptor, the supplementary descriptor (joliet), the boot
\* record and the terminator
FinalizeAllocator(opts) ==
  LbaAllocatorNew(ToU32(opts.sector_size),
                  ToU32(16 + 1 + BoolAsInt(opts.joliet) + BoolAsInt(IsSome(boot_record)) + 1))

\* PassAllocator with the allocator of the previous build kept
PassAllocatorKept(opts, previous) == previous

\* `let mut lba_allocator = LbaAllocator::new(..)`: every build makes an allocator of
\* its own; the one the previous build ended with is gone
PassAllocator(opts, previous) == FinalizeAllocator(opts)

\* the sector the terminator is written to
TerminatorSector(opts) == 16 + 1 + BoolAsInt(opts.joliet) + BoolAsInt(IsSome(boot_record))

\* the PrimaryVolumeDescriptor finalize composes (the identifiers are constants and
\* the dates come from the clock; neither is kept)
ComposePrimaryVolumeDescriptor(opts, a, table, lbas, r) ==
  [volume_space_size |-> a.next_lba,
   logical_block_size |-> opts.sector_size % Limb,
   path_table_size |-> table.size,
   type_l_path_table_location |-> lbas.l.some,
   optional_type_l_path_table_location |-> lbas.l.some,
   type_m_path_table_location |-> lbas.m.some,
   optional_type_m_path_table_location |-> lbas.m.some,
   root_directory_record |-> RootDirectoryRecord(r)]

\* steps 3.1 to 3.4 of finalize: the descriptor writes, in order.  The branches for the
\* supplementary descriptor and the boot record are empty in the source.
DescriptorWrites(opts, descriptor) ==
  <<[kind |-> "pvd", owner |-> << >>, pos |-> 16 * opts.sector_size, len |-> DescriptorBytes,
     record |-> descriptor]>>
  \o (IF opts.joliet THEN << >> ELSE << >>)
  \o (IF IsSome(boot_record) THEN << >> ELSE << >>)
  \o <<[kind |-> "terminator", owner |-> << >>, pos |-> TerminatorSector(opts) * opts.sector_size,
        len |-> DescriptorBytes]>>

\* steps 4.1 / 4.2 of finalize: one path table, record by record
PathTableWrites(writer, table, lba, kind, opts) ==
  WriteRecords(SectorWriterNew(writer, ToNat(lba), opts.sector_size),
               [i \in 1..Len(table.records) |->
                  [record |-> table.records[i], extent |-> PathTableRecordExtent(table.records[i])]],
               kind, << >>)

\* the step w of finalize is made with write_all (a descriptor sector, or the copy of
\* a file's content) and the sink does not take all of its bytes: write_all fails
MustFail(w) ==
  /\ w.kind \in {"pvd", "terminator", "file_data"}
  /\ \/ "len_hi" \in DOMAIN w /\ w.len_hi > 0 /\ sink.bounded
     \/ ~StorageWriteAll(sink, w.pos, w.len)

\* NextStage with the Type M table allocated before the Type L table
NextStageTypeMFirst(stage) ==
  CASE stage = "allocate_tree"     -> "build_path_table"
    [] stage = "build_path_table"  -> "allocate_type_m"
    [] stage = "allocate_type_m"   -> "allocate_type_l"
    [] stage = "allocate_type_l"   -> "compose_descriptor"
    [] stage = "compose_descriptor" -> "write_descriptors"
    [] stage = "write_descriptors" -> "write_type_l"
    [] stage = "write_type_l"      -> "write_type_m"
    [] stage = "write_type_m"      -> "write_tree"
    [] stage = "write_tree"        -> "done"

\* the stages of finalize in program order: the stage that follows `stage`
NextStage(stage) ==
  CASE stage = "allocate_tree"     -> "build_path_table"
    [] stage = "build_path_table"  -> "allocate_type_l"
    [] stage = "allocate_type_l"   -> "allocate_type_m"
    [] stage = "allocate_type_m"   -> "compose_descriptor"
    [] stage = "compose_descriptor" -> "write_descriptors"
    [] stage = "write_descriptors" -> "write_type_l"
    [] stage = "write_type_l"      -> "write_type_m"
    [] stage = "write_type_m"      -> "write_tree"
    [] stage = "write_tree"        -> "done"


(***************************************************************************)
(* Bounds and inputs.                                                      *)
(***************************************************************************)
MaxAllocs == 2

MaxOps == 2

MaxUpserts == 2

MaxPasses == 2

MaxWrites == 3

SectorSizes == {1, 512, 2048}

Offsets == {0, 18}

\* sizes around the sector size and around the top of the u32 range
AllocSizes ==
  {U32(0, 0), U32(0, 1), U32(0, 2047), U32(0, 2048), U32(0, 2049), U32(1, 0),
   U32(Limb - 1, Limb - 2048), U32(Limb - 1, Limb - 2047), U32Max}

Contents == {Content("hi", 2), Content("x", 1)}

Policies == {Overwrite, Ignore, Handler("existing"), Handler("incoming"), Handler("synth")}

InsertPaths ==
  {<< >>, <<"..">>, <<"README">>, <<"/", "README">>, <<"docs", "README">>, <<"docs", "NOTES">>,
   <<"docs", "sub", "NOTES">>, <<"etc", "sub", "NOTES">>}

\* a root holding one file, as the end-to-end scenario of the documentation has it
RootWithFile(name, content) ==
  [RootDefault EXCEPT !.files = (name :> FileEntry(name, content))]

\* the trees given to merge: scaffolds without a file, trees made by one insert_file,
\* roots holding a file, and the scenario root{README, docs{NOTES}}
Others ==
  {Scaffold(<<"docs">>, EmptyMap, EmptyMap), Scaffold(<<"docs", "sub">>, EmptyMap, EmptyMap)}
  \cup {InsertFile(RootDefault, p, c, Overwrite).root : p \in InsertPaths, c \in Contents}
  \cup {RootWithFile("README", c) : c \in Contents}
  \cup {MergeRoot(RootWithFile("README", Content("hi", 2)),
                  Scaffold(<<"docs">>, EmptyMap, ("NOTES" :> FileEntry("NOTES", Content("x", 1)))),
                  Overwrite)}

\* the sector sizes the writer is configured with (IsoWriterOptions.sector_size is
\* a u32 the caller sets; Default gives 2048)
WriterSectorSizes == {512, 2048, 65536}

\* a content of 2^32 + 5 bytes, and an empty one
BigContent == [tag |-> "big", extent |-> [hi |-> 1, lo |-> 5]]
EmptyContent == Content("", 0)

\* the filesystems given to upsert_filesystem: a scaffold without a file, trees made
\* by one insert_file (among them a file of more than 2^32 bytes and an empty file),
\* roots holding a file, and the scenario root{README, docs{NOTES}}
Filesystems ==
  {Scaffold(<<"docs", "sub">>, EmptyMap, EmptyMap),
   InsertFile(RootDefault, <<"docs", "README">>, Content("hi", 2), Overwrite).root,
   InsertFile(RootDefault, <<"docs", "NOTES">>, Content("x", 1), Overwrite).root,
   InsertFile(RootDefault, <<"docs", "sub", "NOTES">>, Content("x", 1), Overwrite).root,
   InsertFile(RootDefault, <<"etc", "sub", "NOTES">>, Content("hi", 2), Overwrite).root,
   InsertFile(RootDefault, <<"docs", "BIG">>, BigContent, Overwrite).root,
   InsertFile(RootDefault, <<"docs", "EMPTY">>, EmptyContent, Overwrite).root,
   RootWithFile("README", Content("hi", 2)),
   RootWithFile("README", Content("x", 1)),
   MergeRoot(RootWithFile("README", Content("hi", 2)),
             Scaffold(<<"docs">>, EmptyMap, ("NOTES" :> FileEntry("NOTES", Content("x", 1)))),
             Overwrite)}

\* the sector sizes a SectorWriter is made with
SectorWriterSizes == {64, 512, 2048}

\* the lengths of the buffers given to write_aligned: none, a path table record, a
\* `.` record, a record with a long identifier, a whole sector, more than a sector
BufferLengths == {0, 10, 34, 288, 512, 3000}

\* the storages a SectorWriter writes to: a growing one, and fixed buffers that end
\* before, inside and after the sectors written
Storages == {Growing, FixedBuffer(0), FixedBuffer(600), FixedBuffer(40000)}

\* the trees the allocation pass is run on: those of one or two merges
PassTrees == Others \cup {MergeRoot(a, b, Overwrite) : a, b \in Others}

(***************************************************************************)
(* Initial values of the parts a specification does not use.               *)
(***************************************************************************)
NoOp == [op |-> "none", path |-> << >>, content |-> Content("", 0), policy |-> Overwrite,
         other |-> RootDefault, pre |-> RootDefault, err |-> "Ok", calls |-> << >>]

IdleAllocator ==
  /\ alloc = LbaAllocatorNew(ToU32(2048), U32Zero)
  /\ alloc_log = << >>
  /\ overflow_checks = FALSE

IdleTree ==
  /\ root = RootDefault
  /\ last = NoOp
  /\ nops = 0

IdleWriter ==
  /\ options = [joliet |-> FALSE, sector_size |-> 2048]
  /\ pc = "idle"
  /\ stages = << >>
  /\ iter_order = None
  /\ path_table = None
  /\ pt_lba = [l |-> None, m |-> None]
  /\ pvd = None
  /\ out = << >>
  /\ passes = << >>
  /\ sink = Growing
  /\ sector_writer = SectorWriterNew(Growing, 0, 2048)

writer_vars == <<options, pc, stages, iter_order, path_table, pt_lba, pvd, out, passes, sink,
                 sector_writer>>
tree_vars == <<root, last, nops>>
alloc_vars == <<alloc, alloc_log, overflow_checks>>

(***************************************************************************)
(* SpecAlloc: one allocator, a sequence of allocate calls.                 *)
(***************************************************************************)
InitAlloc ==
  /\ overflow_checks \in BOOLEAN
  /\ \E ss \in SectorSizes, off \in Offsets :
       alloc = LbaAllocatorNew(ToU32(ss), ToU32(off))
  /\ alloc_log = << >>
  /\ panicked = FALSE
  /\ IdleTree
  /\ IdleWriter

\* one call of LbaAllocator::allocate; a panic leaves the allocator as it was
AllocateCall(size) ==
  /\ ~panicked
  /\ Len(alloc_log) < MaxAllocs
  /\ LET r == Allocate(alloc, size, overflow_checks)
     IN  /\ panicked' = r.panic
         /\ alloc' = IF r.panic THEN alloc ELSE r.alloc
         /\ alloc_log' = Append(alloc_log,
              [size |-> size, before |-> alloc.next_lba,
               returned |-> IF r.panic THEN None ELSE Some(r.lba),
               after |-> IF r.panic THEN alloc.next_lba ELSE r.alloc.next_lba])
  /\ UNCHANGED <<overflow_checks, tree_vars, writer_vars>>

NextAlloc == \E size \in AllocSizes : AllocateCall(size)

SpecAlloc == InitAlloc /\ [][NextAlloc]_vars

(***************************************************************************)
(* SpecSector: one SectorWriter, a sequence of write_aligned calls.  Each  *)
(* call is logged with the cursor it found, the length of the buffer it    *)
(* was given, and where the bytes went.                                    *)
(***************************************************************************)
InitSector ==
  /\ sink \in Storages
  /\ \E ss \in SectorWriterSizes, off \in Offsets :
       sector_writer = SectorWriterNew(sink, off, ss)
  /\ out = << >>
  /\ IdleAllocator
  /\ IdleTree
  /\ panicked = FALSE
  /\ options = [joliet |-> FALSE, sector_size |-> 2048]
  /\ pc = "idle"
  /\ stages = << >>
  /\ iter_order = None
  /\ path_table = None
  /\ pt_lba = [l |-> None, m |-> None]
  /\ pvd = None
  /\ passes = << >>

\* one call of SectorWriter::write_aligned with a buffer of `len` bytes
WriteAlignedCall(len) ==
  /\ Len(out) < MaxWrites
  /\ LET w == WriteAligned(sector_writer, len)
     IN  /\ sector_writer' = w.sw
         /\ out' = Append(out, [kind |-> "record", owner |-> << >>, pos |-> w.pos,
                                 len |-> w.len, written |-> w.written, buf |-> len,
                                 before |-> sector_writer])
  /\ UNCHANGED <<alloc_vars, panicked, tree_vars, options, pc, stages, iter_order, path_table,
                 pt_lba, pvd, passes, sink>>

NextSector == \E len \in BufferLengths : WriteAlignedCall(len)

SpecSector == InitSector /\ [][NextSector]_vars

(***************************************************************************)
(* SpecTree: a Filesystem, insert_file and merge calls.                    *)
(***************************************************************************)
InitTree ==
  /\ IdleTree
  /\ IdleAllocator
  /\ panicked = FALSE
  /\ IdleWriter

\* Filesystem::insert_file
InsertFileOp(path, content, policy) ==
  /\ nops < MaxOps
  /\ LET r == InsertFile(root, path, content, policy)
     IN  /\ root' = r.root
         /\ last' = [op |-> "insert_file", path |-> path, content |-> content,
                     policy |-> policy,
                     other |-> IF IsSome(FileName(path))
                                 THEN Scaffold(Parent(path).some, EmptyMap,
                                        (FileName(path).some :> FileEntry(FileName(path).some, content)))
                                 ELSE RootDefault,
                     pre |-> root, err |-> r.err, calls |-> r.calls]
  /\ nops' = nops + 1
  /\ UNCHANGED <<alloc_vars, panicked, writer_vars>>

\* Filesystem::merge
MergeOp(other, policy) ==
  /\ nops < MaxOps
  /\ root' = MergeRoot(root, other, policy)
  /\ last' = [op |-> "merge", path |-> << >>, content |-> Content("", 0), policy |-> policy,
              other |-> other, pre |-> root, err |-> "Ok",
              calls |-> MergeRootCalls(root, other, policy)]
  /\ nops' = nops + 1
  /\ UNCHANGED <<alloc_vars, panicked, writer_vars>>

NextTree ==
  \/ \E path \in InsertPaths, content \in Contents, policy \in Policies :
       InsertFileOp(path, content, policy)
  \/ \E other \in Others, policy \in Policies : MergeOp(other, policy)

SpecTree == InitTree /\ [][NextTree]_vars

(***************************************************************************)
(* SpecPass: one tree, allocation passes over it.  Every pass starts from  *)
(* a fresh allocator, as every build does.  Between passes the same tree   *)
(* may be built again: equal directories, files and sizes, new maps.       *)
(***************************************************************************)
\* a tree as its constructors leave it: no address assigned
RECURSIVE Unallocated(_)
Unallocated(dir) ==
  [dir EXCEPT !.data_lba = None,
              !.dirs = [n \in DOMAIN dir.dirs |-> Unallocated(dir.dirs[n])],
              !.files = [n \in DOMAIN dir.files |-> [dir.files[n] EXCEPT !.data_lba = None]]]

InitPass ==
  /\ overflow_checks \in BOOLEAN
  /\ options \in [joliet : BOOLEAN, sector_size : WriterSectorSizes]
  /\ root \in PassTrees
  /\ iter_order \in {Some(o) : o \in OrdersOf(root)}
  /\ alloc = FinalizeAllocator(options)
  /\ alloc_log = << >>
  /\ panicked = FALSE
  /\ last = NoOp
  /\ nops = 0
  /\ pc = "idle"
  /\ stages = << >>
  /\ path_table = None
  /\ pt_lba = [l |-> None, m |-> None]
  /\ pvd = None
  /\ out = << >>
  /\ passes = << >>
  /\ sink = Growing
  /\ sector_writer = SectorWriterNew(Growing, 0, 2048)

\* step 1 of a build: a fresh allocator, then Filesystem::allocate_lbas
AllocationPass ==
  /\ ~panicked
  /\ Len(passes) < MaxPasses
  /\ LET r == AllocRoot(root, PassAllocator(options, alloc), iter_order.some, overflow_checks)
     IN  /\ panicked' = r.panic
         /\ root' = r.node
         /\ alloc' = r.alloc
         /\ passes' = Append(passes, [order |-> iter_order.some, pre |-> Addresses(root),
                                       lbas |-> Addresses(r.node)])
  /\ UNCHANGED <<overflow_checks, alloc_log, last, nops, iter_order, options, pc, stages,
                 path_table, pt_lba, pvd, out, sink,
                 sector_writer>>

\* the same tree built again by the same calls: no address yet, and maps of its own
Rebuild ==
  /\ ~panicked
  /\ passes # << >>
  /\ Len(passes) < MaxPasses
  /\ root' = Unallocated(root)
  /\ iter_order' \in {Some(o) : o \in OrdersOf(root)}
  /\ UNCHANGED <<overflow_checks, alloc, alloc_log, panicked, last, nops, options, pc, stages,
                 path_table, pt_lba, pvd, out, passes, sink, sector_writer>>

NextPass == AllocationPass \/ Rebuild

SpecPass == InitPass /\ [][NextPass]_vars

(***************************************************************************)
(* Spec: an IsoWriter.  upsert_filesystem calls, then finalize, stage by   *)
(* stage.  pc names the stage to run next.                                 *)
(***************************************************************************)
Init ==
  /\ overflow_checks \in BOOLEAN
  /\ options \in [joliet : BOOLEAN, sector_size : WriterSectorSizes]
  /\ root = RootDefault
  /\ alloc = FinalizeAllocator(options)
  /\ alloc_log = << >>
  /\ panicked = FALSE
  /\ last = NoOp
  /\ nops = 0
  /\ iter_order = None
  /\ pc = "idle"
  /\ stages = << >>
  /\ path_table = None
  /\ pt_lba = [l |-> None, m |-> None]
  /\ pvd = None
  /\ out = << >>
  /\ passes = << >>
  /\ sink = Growing
  /\ sector_writer = SectorWriterNew(Growing, 0, 2048)

\* IsoWriter::upsert_filesystem
UpsertFilesystem(filesystem, on_file_conflict) ==
  /\ pc = "idle"
  /\ nops < MaxUpserts
  /\ root' = MergeRoot(root, filesystem, on_file_conflict)
  /\ nops' = nops + 1
  /\ UNCHANGED <<alloc_vars, panicked, last, writer_vars>>

\* the stage has run: it is logged, and control moves on unless it panicked
Advance(stage, panic) ==
  /\ stages' = Append(stages, stage)
  /\ panicked' = panic
  /\ pc' = IF panic THEN "panicked" ELSE NextStage(stage)

\* finalize, step 1: the allocator and Filesystem::allocate_lbas.  The tree is frozen
\* from here on; the order its maps iterate in is fixed for the rest of the run.
AllocateTree ==
  /\ pc = "idle"
  /\ \E order \in OrdersOf(root) :
       LET r == AllocRoot(root, PassAllocator(options, alloc), order, overflow_checks)
       IN  /\ iter_order' = Some(order)
           /\ root' = r.node
           /\ alloc' = r.alloc
           /\ Advance("allocate_tree", r.panic)
  /\ UNCHANGED <<overflow_checks, alloc_log, last, nops, options, path_table, pt_lba, pvd,
                 out, passes, sink, sector_writer>>

\* finalize, step 2: PathTable::build_from_filesystem(..).expect(..)
BuildPathTable ==
  /\ pc = "build_path_table"
  /\ LET t == BuildFromFilesystem(root, iter_order.some)
     IN  /\ path_table' = t
         /\ Advance("build_path_table", ~IsSome(t))
  /\ UNCHANGED <<alloc_vars, root, last, nops, iter_order, options, pt_lba, pvd, out, passes,
                 sink, sector_writer>>

\* path_table.allocate_type_l_lba
AllocateTypeL ==
  /\ pc = "allocate_type_l"
  /\ IsSome(path_table)
  /\ LET r == Allocate(alloc, ToU32(path_table.some.size), overflow_checks)
     IN  /\ alloc' = r.alloc
         /\ pt_lba' = [pt_lba EXCEPT !.l = Some(r.lba)]
         /\ Advance("allocate_type_l", r.panic)
  /\ UNCHANGED <<overflow_checks, alloc_log, root, last, nops, iter_order, options,
                 path_table, pvd, out, passes, sink, sector_writer>>

\* path_table.allocate_type_m_lba
AllocateTypeM ==
  /\ pc = "allocate_type_m"
  /\ IsSome(path_table)
  /\ LET r == Allocate(alloc, ToU32(path_table.some.size), overflow_checks)
     IN  /\ alloc' = r.alloc
         /\ pt_lba' = [pt_lba EXCEPT !.m = Some(r.lba)]
         /\ Advance("allocate_type_m", r.panic)
  /\ UNCHANGED <<overflow_checks, alloc_log, root, last, nops, iter_order, options,
                 path_table, pvd, out, passes, sink, sector_writer>>

\* finalize, step 3: the primary volume descriptor is composed
ComposeDescriptor ==
  /\ pc = "compose_descriptor"
  /\ IsSome(path_table) /\ IsSome(pt_lba.l) /\ IsSome(pt_lba.m)
  /\ pvd' = Some(ComposePrimaryVolumeDescriptor(options, alloc, path_table.some, pt_lba, root))
  /\ Advance("compose_descriptor", FALSE)
  /\ UNCHANGED <<alloc_vars, root, last, nops, iter_order, options, path_table, pt_lba,
                 out, passes, sink, sector_writer>>

\* finalize, steps 3.1 to 3.4: the descriptor sectors
WriteDescriptors ==
  /\ pc = "write_descriptors"
  /\ IsSome(pvd)
  /\ \A i \in 1..Len(DescriptorWrites(options, pvd.some)) :
       ~MustFail(DescriptorWrites(options, pvd.some)[i])
  /\ out' = out \o DescriptorWrites(options, pvd.some)
  /\ Advance("write_descriptors", FALSE)
  /\ UNCHANGED <<alloc_vars, root, last, nops, iter_order, options, path_table, pt_lba,
                 pvd, passes, sink, sector_writer>>

\* finalize, step 4.1
WriteTypeL ==
  /\ pc = "write_type_l"
  /\ IsSome(path_table) /\ IsSome(pt_lba.l)
  /\ out' = out \o PathTableWrites(sink, path_table.some, pt_lba.l.some, "path_l", options)
  /\ Advance("write_type_l", FALSE)
  /\ UNCHANGED <<alloc_vars, root, last, nops, iter_order, options, path_table, pt_lba,
                 pvd, passes, sink, sector_writer>>

\* finalize, step 4.2
WriteTypeM ==
  /\ pc = "write_type_m"
  /\ IsSome(path_table) /\ IsSome(pt_lba.m)
  /\ out' = out \o PathTableWrites(sink, path_table.some, pt_lba.m.some, "path_m", options)
  /\ Advance("write_type_m", FALSE)
  /\ UNCHANGED <<alloc_vars, root, last, nops, iter_order, options, path_table, pt_lba,
                 pvd, passes, sink, sector_writer>>

\* finalize, step 5: write_root_directory; a node without an address is unreachable!()
WriteTree ==
  /\ pc = "write_tree"
  /\ IsSome(iter_order)
  /\ LET ws == WriteRootDirectory(sink, root, iter_order.some, options)
     IN  /\ \A i \in 1..Len(ws) : ws[i].kind = "unreachable" \/ ~MustFail(ws[i])
         /\ out' = out \o ws
         /\ Advance("write_tree", \E i \in 1..Len(ws) : ws[i].kind = "unreachable")
  /\ UNCHANGED <<alloc_vars, root, last, nops, iter_order, options, path_table, pt_lba,
                 pvd, passes, sink, sector_writer>>

Next ==
  \/ \E filesystem \in Filesystems, on_file_conflict \in Policies :
       UpsertFilesystem(filesystem, on_file_conflict)
  \/ AllocateTree
  \/ BuildPathTable
  \/ AllocateTypeL
  \/ AllocateTypeM
  \/ ComposeDescriptor
  \/ WriteDescriptors
  \/ WriteTypeL
  \/ WriteTypeM
  \/ WriteTree

Spec == Init /\ [][Next]_vars

(***************************************************************************)
(* SpecIo: finalize over a tree, on a sink that may fail.  Every step of   *)
(* the serialization is `encode?; seek?; write?` (a file: `seek?; copy?`): *)
(* an Err is returned to the caller at the `?`.  The sink is a growing one *)
(* or a fixed buffer, whose `write` takes the bytes that fit and no more.  *)
(***************************************************************************)
\* four names of 191, 189, 191 and 35 characters: the directory records of their
\* entries take 224, 222, 224 and 68 bytes
LongNames ==
  <<"AAAAAAAAAAAAAAAAAAAAAAAAAAAAAAAAAAAAAAAAAAAAAAAAAAAAAAAAAAAAAAAAAAAAAAAAAAAAAAAAAAAAAAAAAAAAAAAAAAAAAAAAAAAAAAAAAAAAAAAAAAAAAAAAAAAAAAAAAAAAAAAAAAAAAAAAAAAAAAAAAAAAAAAAAAAAAAAAAAAAAAAAAAAAAAA",
    "BBBBBBBBBBBBBBBBBBBBBBBBBBBBBBBBBBBBBBBBBBBBBBBBBBBBBBBBBBBBBBBBBBBBBBBBBBBBBBBBBBBBBBBBBBBBBBBBBBBBBBBBBBBBBBBBBBBBBBBBBBBBBBBBBBBBBBBBBBBBBBBBBBBBBBBBBBBBBBBBBBBBBBBBBBBBBBBBBBBBBBBBBBBBB",
    "CCCCCCCCCCCCCCCCCCCCCCCCCCCCCCCCCCCCCCCCCCCCCCCCCCCCCCCCCCCCCCCCCCCCCCCCCCCCCCCCCCCCCCCCCCCCCCCCCCCCCCCCCCCCCCCCCCCCCCCCCCCCCCCCCCCCCCCCCCCCCCCCCCCCCCCCCCCCCCCCCCCCCCCCCCCCCCCCCCCCCCCCCCCCCCC",
    "DDDDDDDDDDDDDDDDDDDDDDDDDDDDDDDDDDD">>

\* the tree of four insert_file calls: docs holds two directories (a file in each)
\* and two files with these names
LongNamesRoot ==
  InsertFile(
    InsertFile(
      InsertFile(
        InsertFile(RootDefault, <<"docs", LongNames[1], "NOTES">>, Content("x", 1), Overwrite).root,
        <<"docs", LongNames[2], "NOTES">>, Content("x", 1), Overwrite).root,
      <<"docs", LongNames[3]>>, Content("x", 1), Overwrite).root,
    <<"docs", LongNames[4]>>, Content("x", 1), Overwrite).root

\* the sectors a fixed buffer given as the sink ends in (4 bytes into the sector)
SinkSectors == {19, 22, 26}

\* the trees finalize is run on
IoTrees ==
  {RootDefault,
   LongNamesRoot,
   InsertFile(RootDefault, <<"docs", "sub", "NOTES">>, Content("x", 1), Overwrite).root,
   MergeRoot(RootWithFile("README", Content("hi", 2)),
             Scaffold(<<"docs">>, EmptyMap, ("NOTES" :> FileEntry("NOTES", Content("x", 1)))),
             Overwrite)}

\* the steps of one serialization stage, in program order
StageWrites(stage) ==
  CASE stage = "write_descriptors" -> DescriptorWrites(options, pvd.some)
    [] stage = "write_type_l" -> PathTableWrites(sink, path_table.some, pt_lba.l.some, "path_l", options)
    [] stage = "write_type_m" -> PathTableWrites(sink, path_table.some, pt_lba.m.some, "path_m", options)
    [] stage = "write_tree" -> WriteRootDirectory(sink, root, iter_order.some, options)

\* the fallible calls of one step: serialize, seek and write / write_all for a record
\* or a descriptor, seek and copy / write_all for a file's content
Causes(w) == IF w.kind = "file_data" THEN {"seek", "write"} ELSE {"encode", "seek", "write"}

\* the Error the `?` converts the failure into
ErrorOf(cause) == IF cause = "encode" THEN "IsoSerialize" ELSE "Io"

\* the step that failed, as the log of the sink keeps it
Failed(w, cause) == [kind |-> "failed", of |-> w.kind, owner |-> w.owner, cause |-> cause]

\* AfterFailure with the failed step skipped and the stage carried on
AfterFailureSkipping(ws, k) == SubSeq(ws, k + 1, Len(ws))

\* what the stage still writes once step k has failed: `?` returns, so nothing
AfterFailure(ws, k) == << >>

InitIo ==
  /\ overflow_checks \in BOOLEAN
  /\ options \in [joliet : BOOLEAN, sector_size : WriterSectorSizes]
  /\ root \in IoTrees
  /\ alloc = FinalizeAllocator(options)
  /\ alloc_log = << >>
  /\ panicked = FALSE
  /\ last = NoOp
  /\ nops = 0
  /\ iter_order = None
  /\ pc = "idle"
  /\ stages = << >>
  /\ path_table = None
  /\ pt_lba = [l |-> None, m |-> None]
  /\ pvd = None
  /\ out = << >>
  /\ passes = << >>
  /\ sink \in {Growing} \cup {FixedBuffer(k * options.sector_size + 4) : k \in SinkSectors}
  /\ sector_writer = SectorWriterNew(Growing, 0, 2048)

\* the steps of the running stage, any of which may fail
FailureSteps ==
  IF pc \in {"write_descriptors", "write_type_l", "write_type_m", "write_tree"}
    THEN 1..Len(StageWrites(pc))
    ELSE {}

\* step k of the steps ws fails: the steps before it have been made (a write_all among
\* them that the sink cannot take would have failed first)
FailsAt(ws, k, cause) ==
  /\ k \in 1..Len(ws)
  /\ cause \in Causes(ws[k])
  /\ \A j \in 1..(k - 1) : ~MustFail(ws[j])
  /\ out' = out \o SubSeq(ws, 1, k - 1) \o <<Failed(ws[k], cause)>> \o AfterFailure(ws, k)

\* step k of the running serialization stage fails: finalize returns the error
SinkFailure(k, cause) ==
  /\ pc \in {"write_descriptors", "write_type_l", "write_type_m", "write_tree"}
  /\ FailsAt(StageWrites(pc), k, cause)
  /\ last' = [NoOp EXCEPT !.op = "finalize", !.err = ErrorOf(cause)]
  /\ stages' = Append(stages, pc)
  /\ pc' = "failed"
  /\ UNCHANGED <<alloc_vars, panicked, root, nops, iter_order, options, path_table, pt_lba,
                 pvd, passes, sink, sector_writer>>

NextIo ==
  \/ AllocateTree
  \/ BuildPathTable
  \/ AllocateTypeL
  \/ AllocateTypeM
  \/ ComposeDescriptor
  \/ WriteDescriptors
  \/ WriteTypeL
  \/ WriteTypeM
  \/ WriteTree
  \/ \E k \in FailureSteps, cause \in {"encode", "seek", "write"} : SinkFailure(k, cause)

SpecIo == InitIo /\ [][NextIo]_vars


(***************************************************************************)
(* Properties.                                                             *)
(***************************************************************************)

\* C1: every allocate call returns the next_lba held before the call and advances
\* next_lba by exactly ceil(size / sector_size) sectors, for every 32-bit size; so
\* next_lba never decreases and the next address returned is at least the previous
\* one plus ceil(previous size / sector_size).
C1_AllocateAdvancesByCeil ==
  \A i \in 1..Len(alloc_log) :
    LET e == alloc_log[i]
        ceil == CeilDiv(e.size, ToNat(alloc.sector_size))
    IN  /\ IsSome(e.returned)
        /\ e.returned.some = e.before
        /\ e.after = U32Add(e.before, ceil).val
        /\ U32Le(e.before, e.after)
        /\ i > 1 =>
             LET d == alloc_log[i - 1]
             IN  /\ IsSome(d.returned)
                 /\ U32Le(U32Add(d.returned.some,
                                 CeilDiv(d.size, ToNat(alloc.sector_size))).val,
                          e.before)

\* the files the last operation's two trees both hold: directory path and name
Collisions ==
  {fp \in FilePaths(last.pre) \cap FilePaths(last.other) : TRUE}

CallsAt(fp) == SelectSeq(last.calls, LAMBDA c : c.at = fp)

\* C2: after a merge (of a given tree, or of insert_file's scaffold), a file name held
\* by both trees in the same directory is held once by the result, and its entry is the
\* incoming one under Overwrite, the existing one under Ignore, and under Handler the
\* entry the handler returned; the handler was called exactly once for the collision,
\* with (existing, incoming), and never under the other policies.
C2_ConflictPolicy ==
  last.op \in {"merge", "insert_file"} =>
    \A fp \in Collisions :
      LET X == FileAtPath(last.pre, fp)
          Y == FileAtPath(last.other, fp)
      IN  /\ fp \in FilePaths(root)
          /\ last.policy.kind = "Overwrite" => FileAtPath(root, fp) = Y /\ CallsAt(fp) = << >>
          /\ last.policy.kind = "Ignore" => FileAtPath(root, fp) = X /\ CallsAt(fp) = << >>
          /\ last.policy.kind = "Handler" =>
               /\ CallsAt(fp) = <<[at |-> fp, existing |-> X, incoming |-> Y]>>
               /\ FileAtPath(root, fp) =
                    (CASE last.policy.fn = "existing" -> X
                       [] last.policy.fn = "incoming" -> Y
                       [] last.policy.fn = "synth" -> SynthEntry)

\* a collision with different contents has been resolved by a handler call
C2_Witness ==
  /\ last.op = "merge"
  /\ last.policy = Handler("existing")
  /\ \E fp \in Collisions :
       /\ FileAtPath(last.pre, fp).content # FileAtPath(last.other, fp).content
       /\ Len(fp) = 2
       /\ Len(last.calls) = 1

\* C3: after a successful insert_file(path, content, policy), with d1/.../dk the parent
\* components of the path and n its final name, the chain d1/.../dk exists and dk (the
\* root when k = 0) holds a file n; the file has the given content when no file n was
\* there before; and no other directory gained or lost a file.
C3_InsertFilePlacesFile ==
  (last.op = "insert_file" /\ last.err = "Ok") =>
    LET dk == Parent(last.path).some
        n  == FileName(last.path).some
    IN  /\ \A k \in 0..Len(dk) : IsSome(DirAt(root, SubSeq(dk, 1, k)))
        /\ IsSome(DirAt(root, dk))
        /\ n \in DOMAIN DirAt(root, dk).some.files
        /\ (dk \o <<n>>) \notin FilePaths(last.pre) =>
             /\ DirAt(root, dk).some.files[n].name = n
             /\ DirAt(root, dk).some.files[n].content = last.content
        /\ FilePaths(root) \ {dk \o <<n>>} = FilePaths(last.pre) \ {dk \o <<n>>}

\* C4: merge unions the two trees: the directories of the result are those of either
\* tree; a directory held by both holds the entries of both; a file held by one tree
\* only is in the result as it was.
C4_MergeUnions ==
  last.op = "merge" =>
    /\ DirPaths(root) = DirPaths(last.pre) \cup DirPaths(last.other)
    /\ FilePaths(root) = FilePaths(last.pre) \cup FilePaths(last.other)
    /\ \A p \in DirPaths(last.pre) \cap DirPaths(last.other) :
         /\ DOMAIN DirAt(root, p).some.dirs =
              DOMAIN DirAt(last.pre, p).some.dirs \cup DOMAIN DirAt(last.other, p).some.dirs
         /\ DOMAIN DirAt(root, p).some.files =
              DOMAIN DirAt(last.pre, p).some.files \cup DOMAIN DirAt(last.other, p).some.files
    /\ \A fp \in FilePaths(last.pre) \ FilePaths(last.other) :
         FileAtPath(root, fp) = FileAtPath(last.pre, fp)
    /\ \A fp \in FilePaths(last.other) \ FilePaths(last.pre) :
         FileAtPath(root, fp) = FileAtPath(last.other, fp)

\* two subdirectories of the same name, each with a file of its own, have been merged
C4_Witness ==
  /\ last.op = "merge"
  /\ \E p \in (DirPaths(last.pre) \cap DirPaths(last.other)) \ {<< >>} :
       /\ DOMAIN DirAt(last.pre, p).some.files # {}
       /\ DOMAIN DirAt(last.other, p).some.files # {}
       /\ DOMAIN DirAt(last.pre, p).some.files \cap DOMAIN DirAt(last.other, p).some.files = {}
       /\ Cardinality(DOMAIN DirAt(root, p).some.files) = 2

\* the last operation added exactly one file, to a directory that existed and was
\* empty, added no directory and left every other file as it was
AddedOneFileToEmptyDir(fp) ==
  /\ last.op \in {"merge", "insert_file"}
  /\ FilePaths(root) \ FilePaths(last.pre) = {fp}
  /\ FilePaths(last.pre) \subseteq FilePaths(root)
  /\ \A other \in FilePaths(last.pre) : FileAtPath(root, other) = FileAtPath(last.pre, other)
  /\ DirPaths(root) = DirPaths(last.pre)
  /\ LET D == DirAt(last.pre, SubSeq(fp, 1, Len(fp) - 1)).some
     IN  DOMAIN D.files = {} /\ DOMAIN D.dirs = {}

NewFilePaths == FilePaths(root) \ FilePaths(last.pre)

\* C8 as amended: adding one file whose directory record has encoded size e to an
\* empty directory D, with nothing else in the tree changed, increases the data length
\* of D by exactly e and leaves the data length of every proper ancestor of D as it was.
C8_DataLengthOfDirOnly ==
  \A fp \in NewFilePaths :
    AddedOneFileToEmptyDir(fp) =>
      LET D == SubSeq(fp, 1, Len(fp) - 1)
          e == DirectoryRecordExtent(FileDirectoryRecord(FileAtPath(root, fp)))
      IN  /\ DataLengthAt(root, D) = DataLengthAt(last.pre, D) + e
          /\ \A k \in 0..(Len(D) - 1) :
               DataLengthAt(root, SubSeq(D, 1, k)) = DataLengthAt(last.pre, SubSeq(D, 1, k))

\* a file has been added to an empty directory two levels below the root
C8_Witness ==
  \E fp \in NewFilePaths : AddedOneFileToEmptyDir(fp) /\ Len(fp) = 3

\* C8 as stated: the data length of D and of every ancestor of D, up to the root,
\* increases by exactly e.
C8_AncestorsGrowToo ==
  \A fp \in NewFilePaths :
    AddedOneFileToEmptyDir(fp) =>
      LET D == SubSeq(fp, 1, Len(fp) - 1)
          e == DirectoryRecordExtent(FileDirectoryRecord(FileAtPath(root, fp)))
      IN  \A k \in 0..Len(D) :
            DataLengthAt(root, SubSeq(D, 1, k)) = DataLengthAt(last.pre, SubSeq(D, 1, k)) + e

\* C5 as amended: allocation passes over the same tree, each from a fresh allocator
\* with the same sector size and starting offset, assign every node the same address
\* whenever the maps of the tree iterate in the same order; in particular two passes
\* over the unmodified tree do.
C5_SameOrderSameAddresses ==
  \A i, j \in 1..Len(passes) :
    passes[i].order = passes[j].order => passes[i].lbas = passes[j].lbas

\* two passes have been made in the same iteration order over a tree that has a
\* directory with two entries in one map, and a file
C5_Witness ==
  /\ Len(passes) = 2
  /\ passes[1].order = passes[2].order
  /\ Cardinality(OrdersOf(root)) > 1
  /\ FilePaths(root) # {}
  /\ \A p \in DirPaths(root) : IsSome(passes[1].lbas.dirs[p])

\* C5 as stated: the addresses are a function of the tree shape and the sector size
\* only, so every pass over a tree of the same directories, files and sizes assigns
\* the same addresses.
C5_SameShapeSameAddresses ==
  \A i, j \in 1..Len(passes) : passes[i].lbas = passes[j].lbas

\* the directory path a path table record stands for, read off the parent indices
RECURSIVE RecordPath(_, _)
RecordPath(rs, i) ==
  IF i = 1 THEN << >>
  ELSE IF rs[i].parent_directory_number \in 1..(i - 1)
    THEN RecordPath(rs, rs[i].parent_directory_number) \o <<rs[i].directory_identifier>>
    ELSE <<"?">>

\* C6: in the path table built from the allocated tree the root is record 1 with parent
\* index 1, and every other record i has a parent index p < i such that record p is the
\* record of the parent directory: following the parent indices from record i spells
\* the path of a directory of the tree, and the record carries that directory's address.
C6_PathTableParents ==
  IsSome(path_table) =>
    LET rs == path_table.some.records
    IN  /\ Len(rs) >= 1
        /\ rs[1].parent_directory_number = 1
        /\ Some(rs[1].extent_location) = root.data_lba
        /\ \A i \in 2..Len(rs) :
             /\ rs[i].parent_directory_number \in 1..(i - 1)
             /\ RecordPath(rs, i) \in DirPaths(root)
             /\ Some(rs[i].extent_location) = DirAt(root, RecordPath(rs, i)).some.data_lba
             /\ rs[i].directory_identifier = DirAt(root, RecordPath(rs, i)).some.name

\* a table where a top-level directory comes after another directory's subtree (its
\* parent is not the record just before it), and where two directories of the same
\* name have different parents
C6_Witness ==
  /\ IsSome(path_table)
  /\ LET rs == path_table.some.records
     IN  /\ \E i \in 3..Len(rs) : rs[i].parent_directory_number = 1
         /\ \E i, j \in 2..Len(rs) :
              /\ rs[i].directory_identifier = rs[j].directory_identifier
              /\ rs[i].parent_directory_number > 1
              /\ rs[j].parent_directory_number > rs[i].parent_directory_number

\* the tree root{README, docs{NOTES}}
ScenarioShape(r) ==
  /\ DirPaths(r) = {<< >>, <<"docs">>}
  /\ FilePaths(r) = {<<"README">>, <<"docs", "NOTES">>}

\* C7: the path table has exactly one record for each directory of the tree, the root
\* and the subdirectories at any depth, and no other record (none for a file); for
\* root{README, docs{NOTES}} it has two records, the root and docs, docs with parent 1.
C7_OneRecordPerDirectory ==
  IsSome(path_table) =>
    LET rs == path_table.some.records
    IN  /\ Len(rs) = Cardinality(DirPaths(root))
        /\ \A d \in DirPaths(root) :
             Cardinality({i \in 1..Len(rs) : RecordPath(rs, i) = d}) = 1
        /\ ScenarioShape(root) =>
             /\ Len(rs) = 2
             /\ rs[1].directory_identifier = RootIdentifier
             /\ rs[2].directory_identifier = "docs"
             /\ rs[2].parent_directory_number = 1

\* the path table of root{README, docs{NOTES}} has been built
C7_Witness ==
  /\ IsSome(path_table)
  /\ ScenarioShape(root)
  /\ FileAtPath(root, <<"README">>).content = Content("hi", 2)
  /\ FileAtPath(root, <<"docs", "NOTES">>).content = Content("x", 1)

StageOrder ==
  <<"allocate_tree", "build_path_table", "allocate_type_l", "allocate_type_m",
    "compose_descriptor", "write_descriptors", "write_type_l", "write_type_m", "write_tree">>

StageDone(stage) == \E i \in 1..Len(stages) : stages[i] = stage

Written(kind) == \E i \in 1..Len(out) : out[i].kind = kind

\* the rank of a write in the order descriptors, Type L, Type M, tree
KindRank(kind) ==
  CASE kind = "pvd" -> 1 [] kind = "svd" -> 2 [] kind = "boot" -> 3 [] kind = "terminator" -> 4
    [] kind = "path_l" -> 5 [] kind = "path_m" -> 6 [] OTHER -> 7

C10_SupplementaryDescriptor ==
  \A j \in 1..Len(out) :
    out[j].kind = "terminator" =>
      IF options.joliet
        THEN \E i \in 1..(j - 1) :
               /\ out[i].kind = "svd"
               /\ out[i].pos = 17 * options.sector_size
               /\ out[i].len = options.sector_size
        ELSE /\ ~Written("svd")
             /\ out[j].pos = 17 * options.sector_size
             /\ FinalizeAllocator(options).next_lba = ToU32(18)

\* the sector a descriptor write is made for
DescriptorSector(kind) == IF kind = "pvd" THEN 16 ELSE TerminatorSector(options)

\* C11: the primary descriptor and the terminator are each written as one sector, at
\* byte 16 * sector_size and at byte (16 + 1 + joliet + boot_record) * sector_size: the
\* bytes of the write start at the descriptor's sector and end inside it, so they reach
\* neither the sector of another descriptor nor the first allocated extent.
C11_DescriptorsOneSector ==
  \A i \in 1..Len(out) :
    out[i].kind \in {"pvd", "terminator"} =>
      /\ out[i].pos = DescriptorSector(out[i].kind) * options.sector_size
      /\ out[i].pos + out[i].len <= (DescriptorSector(out[i].kind) + 1) * options.sector_size
      /\ out[i].pos + out[i].len <=
           ToNat(FinalizeAllocator(options).next_lba) * options.sector_size

\* every address assigned so far: to a directory, a file or a path table
AssignedAddresses ==
  {DirAt(root, p).some.data_lba.some :
          p \in {q \in DirPaths(root) : IsSome(DirAt(root, q).some.data_lba)}}
  \cup {FileAtPath(root, fp).data_lba.some :
          fp \in {q \in FilePaths(root) : IsSome(FileAtPath(root, q).data_lba)}}
  \cup {pt_lba[k].some : k \in {t \in {"l", "m"} : IsSome(pt_lba[t])}}

\* C12: the writer's allocator starts at 16 + 1 + (1 if joliet) + (1 if a boot record
\* is present) + 1, the sector directly after the terminator's; every address assigned
\* to a directory, a file or a path table is greater than the sector of every volume
\* descriptor written and of the terminator.
C12_AddressesPastDescriptors ==
  /\ alloc.calls # << >> =>
       /\ alloc.calls[1].lba = ToU32(16 + 1 + BoolAsInt(options.joliet) + BoolAsInt(IsSome(boot_record)) + 1)
       /\ ToNat(alloc.calls[1].lba) = TerminatorSector(options) + 1
  /\ \A a \in AssignedAddresses :
       /\ ToNat(a) > 16
       /\ ToNat(a) > TerminatorSector(options)
       /\ \A i \in 1..Len(out) :
            out[i].kind \in {"pvd", "svd", "boot", "terminator"} =>
              ToNat(a) * options.sector_size > out[i].pos

\* a run with the extension enabled has finished, for a tree with a file
C12_Witness ==
  /\ pc = "done"
  /\ options.joliet
  /\ FilePaths(root) # {}
  /\ Cardinality(AssignedAddresses) >= 5

\* the addresses assigned to the directories and to the files of the tree
TreeAddresses ==
  {DirAt(root, p).some.data_lba.some :
     p \in {q \in DirPaths(root) : IsSome(DirAt(root, q).some.data_lba)}}
  \cup {FileAtPath(root, fp).data_lba.some :
          fp \in {q \in FilePaths(root) : IsSome(FileAtPath(root, q).data_lba)}}

\* the addresses assigned to the directories and to the files that are not empty
NonEmptyNodeAddresses ==
  {DirAt(root, p).some.data_lba.some :
     p \in {q \in DirPaths(root) : IsSome(DirAt(root, q).some.data_lba)}}
  \cup {FileAtPath(root, fp).data_lba.some :
          fp \in {q \in FilePaths(root) : /\ IsSome(FileAtPath(root, q).data_lba)
                                          /\ FileDirectoryRecord(FileAtPath(root, q)).data_length > 0}}

WriteLong(w) == "len_hi" \in DOMAIN w /\ w.len_hi > 0

\* the write puts a byte into [lo, hi)
Touches(w, lo, hi) ==
  /\ lo < hi
  /\ w.pos < hi
  /\ WriteLong(w) \/ lo < w.pos + w.len

\* the write puts a byte at or after position lo
TouchesFrom(w, lo) == WriteLong(w) \/ lo < w.pos + w.len

\* the end of the sector that holds the byte before position `pos`
SectorEnd(pos) ==
  ((pos + options.sector_size - 1) \div options.sector_size) * options.sector_size

\* C14: after the writer has completed, for every file of the tree the bytes of the
\* output at [address * sector_size, address * sector_size + length) are the file's
\* content in order (the file was copied there and no later write put a byte into the
\* range), and the rest of the file's last sector is zero (no record and no file
\* content was written there).
C14_FileBytesReadBack ==
  pc = "done" =>
    \A fp \in FilePaths(root) :
      LET file == FileAtPath(root, fp)
          at == ToNat(file.data_lba.some) * options.sector_size
      IN  \E j \in 1..Len(out) :
            /\ out[j].kind = "file_data" /\ out[j].owner = fp
            /\ out[j].pos = at
            /\ out[j].content = file.content.tag
            /\ out[j].len = Extent(file.content).lo /\ out[j].len_hi = Extent(file.content).hi
            /\ \A k \in (j + 1)..Len(out) :
                 IF WriteLong(out[j]) THEN ~TouchesFrom(out[k], at)
                 ELSE ~Touches(out[k], at, at + out[j].len)
            /\ ~WriteLong(out[j]) =>
                 \A k \in 1..Len(out) :
                   out[k].kind \in {"path_l", "path_m", "dir_record", "file_data"} =>
                     ~Touches(out[k], at + out[j].len, SectorEnd(at + out[j].len))

\* the directory records written for the directory at path p, in the order written
RecordsOf(p) == SelectSeq(out, LAMBDA w : w.kind = "dir_record" /\ w.owner = p)

\* the path of the parent of the directory at p; the root stands for its own parent
ParentPath(p) == IF p = << >> THEN << >> ELSE SubSeq(p, 1, Len(p) - 1)

ScenarioTree(r) ==
  /\ ScenarioShape(r)
  /\ Extent(FileAtPath(r, <<"README">>).content) = [hi |-> 0, lo |-> 2]
  /\ Extent(FileAtPath(r, <<"docs", "NOTES">>).content) = [hi |-> 0, lo |-> 1]

\* C16: for the tree root{README (2 bytes), docs{NOTES (1 byte)}} and sector size 2048
\* the allocation pass gives the root, docs, README and NOTES one sector each, at four
\* pairwise distinct, consecutive addresses, the root's being the allocator's starting
\* offset, the sector just past the system area and the descriptor sectors.
C16_ScenarioAddresses ==
  (ScenarioTree(root) /\ options.sector_size = 2048 /\ IsSome(root.data_lba)) =>
    LET start == 16 + 1 + BoolAsInt(options.joliet) + 1
        lba == Addresses(root)
        four == {lba.dirs[<< >>], lba.dirs[<<"docs">>], lba.files[<<"README">>],
                 lba.files[<<"docs", "NOTES">>]}
    IN  /\ \A a \in four : IsSome(a)
        /\ ToNat(lba.dirs[<< >>].some) = start
        /\ {ToNat(a.some) : a \in four} = start..(start + 3)
        /\ Cardinality(four) = 4
        /\ Len(alloc.calls) >= 4
        /\ \A i \in 1..4 :
             /\ ToNat(alloc.calls[i].lba) = start + i - 1
             /\ i < Len(alloc.calls) => ToNat(alloc.calls[i + 1].lba) = start + i
        /\ ToNat(alloc.next_lba) >= start + 4

\* the scenario tree has been allocated with sector size 2048
C16_Witness ==
  /\ ScenarioTree(root)
  /\ options.sector_size = 2048
  /\ IsSome(root.data_lba)
  /\ IsSome(FileAtPath(root, <<"docs", "NOTES">>).data_lba)

\* C17: the primary volume descriptor composed by the writer carries the allocator's
\* next address after the tree and both path tables have been allocated as its volume
\* space size, the configured sector size, the two allocated path-table addresses, the
\* path table's byte size, and a root record with the root directory's allocated
\* address and computed data length.
C17_DescriptorFields ==
  IsSome(pvd) =>
    /\ pvd.some.volume_space_size = alloc.next_lba
    /\ Len(alloc.calls) = Cardinality(DirPaths(root)) + Cardinality(FilePaths(root)) + 2
    /\ pvd.some.logical_block_size = options.sector_size
    /\ pvd.some.type_l_path_table_location = pt_lba.l.some
    /\ pvd.some.type_m_path_table_location = pt_lba.m.some
    /\ pvd.some.path_table_size = path_table.some.size
    /\ pvd.some.root_directory_record.extent_location = root.data_lba.some
    /\ pvd.some.root_directory_record.data_length = DataLengthAt(root, << >>)

\* the steps of a whole run on a sink that does not fail, in program order
PlannedWrites ==
  StageWrites("write_descriptors") \o StageWrites("write_type_l")
  \o StageWrites("write_type_m") \o StageWrites("write_tree")

IsFailure(w) == w.kind = "failed"

NoFinalComponent(path) == path = << >> \/ path[Len(path)] \in {"/", ".."}

\* C19: insert_file called with a path that has no final component returns NotAFile
\* and leaves the tree as it was before the call: no directory scaffolded, no file
\* added or replaced, the conflict handler not called.
C19_NotAFileLeavesTree ==
  last.op = "insert_file" =>
    /\ NoFinalComponent(last.path) =>
         /\ last.err = "NotAFile"
         /\ root = last.pre
         /\ DirPaths(root) = DirPaths(last.pre)
         /\ FilePaths(root) = FilePaths(last.pre)
         /\ last.calls = << >>
    /\ last.err = "NotAFile" => NoFinalComponent(last.path)

\* insert_file("..") with a handler has been refused on a tree that holds a file
C19_Witness ==
  /\ last.op = "insert_file"
  /\ last.path = <<"..">>
  /\ last.policy.kind = "Handler"
  /\ last.err = "NotAFile"
  /\ FilePaths(last.pre) # {}
  /\ root = last.pre

\* the sum of the extents of the directory records of the immediate children, plus 68
SumOfChildRecords(dir) ==
  SumOver(DOMAIN dir.files,
          [n \in DOMAIN dir.files |-> DirectoryRecordExtent(FileDirectoryRecord(dir.files[n]))])
  + SumOver(DOMAIN dir.dirs,
            [n \in DOMAIN dir.dirs |->
               DirectoryRecordExtent([file_identifier |-> dir.dirs[n].name])])
  + 68

\* C20: the data length of every directory, the root included, is the sum of the
\* directory-record extents of its immediate files and subdirectories plus 68, and this
\* value is the size asked of the allocator for the directory, the data length of its
\* own `.` record, of its parent's record for it, of its children's `..` records and,
\* for the root, of the root record of the volume descriptor.
C20_OneDataLength ==
  \A p \in DirPaths(root) :
    LET dir == DirAt(root, p).some
        n == DataLengthAt(root, p)
    IN  /\ n = SumOfChildRecords(dir)
        /\ IsSome(root.data_lba) =>
             /\ IsSome(dir.data_lba)
             /\ \E i \in 1..Len(alloc.calls) :
                  alloc.calls[i] = [size |-> ToU32(n), lba |-> dir.data_lba.some]
        /\ (IsSome(pvd) /\ p = << >>) => pvd.some.root_directory_record.data_length = n
        /\ StageDone("write_tree") =>
             /\ RecordsOf(p)[1].record.data_length = n
             /\ p = << >> => RecordsOf(p)[2].record.data_length = n
             /\ p # << >> =>
                  \E i \in 3..Len(RecordsOf(ParentPath(p))) :
                    LET rec == RecordsOf(ParentPath(p))[i].record
                    IN  /\ rec.file_flags = "directory"
                        /\ rec.file_identifier = dir.name
                        /\ rec.extent_location = dir.data_lba.some
                        /\ rec.data_length = n
             /\ \A c \in DOMAIN dir.dirs :
                  RecordsOf(p \o <<c>>)[2].record.data_length = n

\* a tree has been written in which a subdirectory holds a file and a subdirectory,
\* the three levels having different data lengths
C20_Witness ==
  /\ pc = "done"
  /\ \E p \in DirPaths(root) \ {<< >>} :
       /\ DOMAIN DirAt(root, p).some.dirs # {}
       /\ DOMAIN DirAt(root, p).some.files # {}
       /\ DataLengthAt(root, p) # DataLengthAt(root, << >>)
       /\ \E c \in DOMAIN DirAt(root, p).some.dirs :
            DataLengthAt(root, p \o <<c>>) # DataLengthAt(root, p)

\* the sector the byte at position pos lies in
SectorOf(pos, sector_size) == pos \div sector_size

\* C23: after any sequence of write_aligned calls, the bytes of a record lie in one
\* sector: a buffer that does not fit in the rest of the current sector is written
\* from offset 0 of the next sector, one that fits is written at the cursor, and the
\* cursor's offset within the sector never exceeds the sector size.
C23_RecordsInOneSector ==
  /\ sector_writer.bytes_offset <= sector_writer.sector_size
  /\ \A i \in 1..Len(out) :
       LET w == out[i]
           ss == sector_writer.sector_size
       IN  /\ w.len > 0 => SectorOf(w.pos, ss) = SectorOf(w.pos + w.len - 1, ss)
           /\ w.written <= w.len
           /\ w.before.bytes_offset + w.len > ss =>
                w.pos = (w.before.sector_ix + 1) * ss
           /\ w.before.bytes_offset + w.len <= ss =>
                w.pos = w.before.sector_ix * ss + w.before.bytes_offset
           /\ i > 1 => /\ w.before.sector_ix * ss + w.before.bytes_offset =
                             out[i - 1].pos + out[i - 1].written
                        /\ w.pos >= out[i - 1].pos + out[i - 1].written

\* a record that did not fit behind the records of its sector has been written at the
\* start of the next sector
C23_Witness ==
  \E i \in 2..Len(out) :
    /\ out[i].before.bytes_offset > 0
    /\ out[i].buf <= sector_writer.sector_size
    /\ out[i].len > 0
    /\ out[i].pos = (out[i].before.sector_ix + 1) * sector_writer.sector_size
    /\ out[i].written = out[i].len

Serializing ==
  pc \in {"write_descriptors", "write_type_l", "write_type_m", "write_tree", "done"}

C22_AddressesAssigned ==
  /\ \A i \in 1..Len(out) : out[i].kind # "unreachable"
  /\ StageDone("build_path_table") => IsSome(path_table)
  /\ StageDone("write_tree") => pc = "done"
  /\ Serializing =>
       /\ \A p \in DirPaths(root) : IsSome(DirAt(root, p).some.data_lba)
       /\ \A fp \in FilePaths(root) : IsSome(FileAtPath(root, fp).data_lba)

\* the build is done for a tree of two upserts: three directories or more under the
\* root, files among them, and the content of a file has been written
C22_Witness ==
  /\ pc = "done"
  /\ Cardinality(DirPaths(root)) >= 4
  /\ Cardinality(FilePaths(root)) >= 2
  /\ Written("file_data")
  /\ Written("dir_record")

(***************************************************************************)
(* C24: the allocation pass goes top-down.  The root's call is the first   *)
(* call made on the allocator; the address of a directory is strictly less *)
(* than the address of every node below it; and in one directory every     *)
(* node below a subdirectory gets its address before the directory's own   *)
(* files do.                                                               *)
(***************************************************************************)
\* q is p, or lies below p
IsPrefix(p, q) == Len(p) <= Len(q) /\ SubSeq(q, 1, Len(p)) = p

\* the allocate call made for the directory at p, and for the file at fp
DirCall(p) ==
  [size |-> ToU32(IF p = << >> THEN RootDirectoryRecord(root).data_length
                  ELSE DirectoryRecord(DirAt(root, p).some).data_length),
   lba |-> DirAt(root, p).some.data_lba.some]
FileCall(fp) ==
  [size |-> ToU32(FileDirectoryRecord(FileAtPath(root, fp)).data_length),
   lba |-> FileAtPath(root, fp).data_lba.some]

\* the position of the call c in the history of the allocator (the first, when two
\* calls asked for the same size and got the same address)
CallIx(c) ==
  CHOOSE i \in 1..Len(alloc.calls) :
    alloc.calls[i] = c /\ \A j \in 1..(i - 1) : alloc.calls[j] # c

\* the call a was made before the call b; two calls that cannot be told apart both
\* asked for no byte at the same address
CalledBefore(a, b) ==
  \/ CallIx(a) < CallIx(b)
  \/ a = b /\ a.size = U32Zero

\* the calls of the nodes below the subdirectories of the directory at p
BelowSubdirectories(p) ==
  {DirCall(q) : q \in {d \in DirPaths(root) : IsPrefix(p, d) /\ Len(d) > Len(p)}}
  \cup {FileCall(fp) : fp \in {f \in FilePaths(root) : IsPrefix(p, f) /\ Len(f) > Len(p) + 1}}

C24_TopDown ==
  (StageDone("allocate_tree") /\ ~panicked) =>
    /\ alloc.calls[1] = DirCall(<< >>)
    /\ DirCall(<< >>).lba = FinalizeAllocator(options).next_lba
    /\ \A p \in DirPaths(root) :
         /\ \A q \in DirPaths(root) :
              (IsPrefix(p, q) /\ q # p) =>
                /\ ToNat(DirCall(p).lba) < ToNat(DirCall(q).lba)
                /\ CallIx(DirCall(p)) < CallIx(DirCall(q))
         /\ \A fp \in FilePaths(root) :
              IsPrefix(p, fp) =>
                /\ ToNat(DirCall(p).lba) < ToNat(FileCall(fp).lba)
                /\ CallIx(DirCall(p)) < CallIx(FileCall(fp))
         /\ \A fp \in FilePaths(root) :
              (IsPrefix(p, fp) /\ Len(fp) = Len(p) + 1) =>
                \A c \in BelowSubdirectories(p) :
                  /\ CalledBefore(c, FileCall(fp))
                  /\ ToNat(c.lba) <= ToNat(FileCall(fp).lba)

\* the pass has been made over a tree in which a directory under the root has a file
\* of its own and a subdirectory that holds a file
C24_Witness ==
  /\ StageDone("allocate_tree") /\ ~panicked
  /\ \E p \in DirPaths(root) :
       /\ p # << >>
       /\ \E fp \in FilePaths(root) : IsPrefix(p, fp) /\ Len(fp) = Len(p) + 1
       /\ \E fp \in FilePaths(root) : IsPrefix(p, fp) /\ Len(fp) = Len(p) + 2

(***************************************************************************)
(* C25: the records written with the sector-aligned cursor stay inside the *)
(* sectors allocated for them.  The records of a directory end at or       *)
(* before the first byte of the next allocated address; the records of a   *)
(* path table end within ceil(size / sector_size) sectors of its address.  *)
(***************************************************************************)
\* the address the allocator returned to the call made after the call c
NextAllocated(c) == alloc.calls[CallIx(c) + 1].lba

\* the first byte after the sectors allocated for the path table at address lba
PathTableEnd(lba) ==
  (ToNat(lba) + ToNat(CeilDiv(ToU32(path_table.some.size), options.sector_size))) * options.sector_size

C25_RecordsInsideExtent ==
  \A i \in 1..Len(out) :
    /\ out[i].kind = "dir_record" =>
         out[i].pos + out[i].len
           <= ToNat(NextAllocated(DirCall(out[i].owner))) * options.sector_size
    /\ out[i].kind = "path_l" => out[i].pos + out[i].len <= PathTableEnd(pt_lba.l.some)
    /\ out[i].kind = "path_m" => out[i].pos + out[i].len <= PathTableEnd(pt_lba.m.some)

(***************************************************************************)
(* C30: a write_aligned call of the writer that returned Ok has placed     *)
(* every byte of its record in the sink: a record of which the sink took   *)
(* only a part is never followed by the rest of the build.                 *)
(***************************************************************************)
C30_WholeRecordOrFailure ==
  \A i \in 1..Len(out) :
    out[i].kind \in {"path_l", "path_m", "dir_record"} => out[i].written = out[i].len

(***************************************************************************)
(* C26: after allocation no two nodes of the tree have the same address,   *)
(* and neither path table has the address of a node or of the other table. *)
(***************************************************************************)
\* the nodes of the tree and the two path tables, each with its address
Extents ==
  {[node |-> <<"dir", p>>, lba |-> DirAt(root, p).some.data_lba.some] : p \in DirPaths(root)}
  \cup {[node |-> <<"file", fp>>, lba |-> FileAtPath(root, fp).data_lba.some] : fp \in FilePaths(root)}
  \cup {[node |-> <<"path_l">>, lba |-> pt_lba.l.some], [node |-> <<"path_m">>, lba |-> pt_lba.m.some]}

C26_DistinctAddresses ==
  (StageDone("allocate_type_m") /\ ~panicked) =>
    \A a, b \in Extents : a.node # b.node => a.lba # b.lba

(***************************************************************************)
(* C27: every file is allocated at least ceil(length / sector_size)        *)
(* sectors, the length being the 64-bit length of its content.             *)
(***************************************************************************)
\* ceil(length / sector_size) for the u64 length [hi, lo] = hi * 2^32 + lo, the sector
\* size dividing 2^16
SectorsNeeded(extent, sector_size) ==
  extent.hi * ((Limb \div sector_size) * Limb) + (extent.lo + sector_size - 1) \div sector_size

\* the sectors between the address of the call c and the address allocated next
SectorsAllocated(c) == ToNat(NextAllocated(c)) - ToNat(c.lba)

C27_FileSectorsCoverLength ==
  (StageDone("allocate_type_l") /\ ~panicked) =>
    \A fp \in FilePaths(root) :
      SectorsAllocated(FileCall(fp))
        >= SectorsNeeded(Extent(FileAtPath(root, fp).content), options.sector_size)

(***************************************************************************)
(* C28: the record a directory writes for a child carries the address the  *)
(* child's own data is written at (the `.` record of a subdirectory, the   *)
(* first content byte of a file) and the child's length (the data length   *)
(* of the subdirectory, the content length of the file), and never the     *)
(* placeholder address 0.                                                  *)
(***************************************************************************)
\* the writes of the content of the file at fp
ContentWrites(fp) == SelectSeq(out, LAMBDA w : w.kind = "file_data" /\ w.owner = fp)

\* the record rec is the one of the subdirectory at q
RecordOfDirectory(rec, q) ==
  /\ rec.extent_location # U32Zero
  /\ rec.extent_location = DirAt(root, q).some.data_lba.some
  /\ RecordsOf(q)[1].pos = ToNat(rec.extent_location) * options.sector_size
  /\ RecordsOf(q)[1].record.file_identifier = CurrentDirectoryIdentifier
  /\ rec.data_length = DataLengthAt(root, q)

\* the record rec is the one of the file at fp
RecordOfFile(rec, fp) ==
  /\ rec.extent_location # U32Zero
  /\ rec.extent_location = FileAtPath(root, fp).data_lba.some
  /\ Len(ContentWrites(fp)) = 1
  /\ ContentWrites(fp)[1].pos = ToNat(rec.extent_location) * options.sector_size
  /\ Extent(FileAtPath(root, fp).content) = [hi |-> 0, lo |-> rec.data_length]

C28_ChildRecords ==
  pc = "done" =>
    \A p \in DirPaths(root) :
      LET ds == iter_order.some[p].dirs
          fs == iter_order.some[p].files
          rs == RecordsOf(p)
      IN  /\ Len(rs) = 2 + Len(ds) + Len(fs)
          /\ \A i \in 1..Len(ds) : RecordOfDirectory(rs[2 + i].record, p \o <<ds[i]>>)
          /\ \A j \in 1..Len(fs) : RecordOfFile(rs[2 + Len(ds) + j].record, p \o <<fs[j]>>)

(***************************************************************************)
(* C29: in every directory of the tree, every key of the file map is the   *)
(* name of the file stored under it, and every key of the subdirectory map *)
(* is the name of the directory stored under it.                           *)
(***************************************************************************)
\* the keys of the subdirectory maps are the names of the directories
DirKeysAreNames ==
  \A p \in DirPaths(root) :
    \A k \in DOMAIN DirAt(root, p).some.dirs : DirAt(root, p).some.dirs[k].name = k

C29_KeysAreNames ==
  /\ DirKeysAreNames
  /\ \A p \in DirPaths(root) :
       \A k \in DOMAIN DirAt(root, p).some.files : DirAt(root, p).some.files[k].name = k

====
